---- MODULE Spec2Model ----
(***************************************************************************)
(* A model of the py-datavolley decoding core (datavolley/utils/metadata.py *)
(* and datavolley/core/{players,attack_combos,set_calls}.py).               *)
(*                                                                          *)
(* Text is a sequence of characters, each character a one-element string.   *)
(* A run of letters that no operation of the code ever looks inside (the    *)
(* tail of a section tag such as "SET]", the word "team" of a dictionary    *)
(* key) is written as one symbol.  "\n" is the newline, " " the space and   *)
(* "sup2" stands for U+00B2 (SUPERSCRIPT TWO): a character for which        *)
(* str.isdigit() is true while int() raises ValueError and \d does not      *)
(* match.                                                                   *)
(***************************************************************************)
EXTENDS Integers, Sequences, FiniteSets, TLC

VARIABLES doc, src, pc, match_id, teams, set_scores, players,
          attack_combinations, setter_calls, match_result,
          calls_with_codes, starting_lineup

vars == <<doc, src, pc, match_id, teams, set_scores, players,
          attack_combinations, setter_calls, match_result,
          calls_with_codes, starting_lineup>>

(***************************************************************************)
(* Python values                                                           *)
(***************************************************************************)
\* Python's None where a str, a list or a dict may stand; written as a
\* one-symbol text so that it compares with texts ("None" is no character)
None == <<"None">>
\* a value that has not been computed yet (the name is not bound)
Unset == <<"Unset">>
\* an Optional[int]: Python's None, or the int n
NoneInt == [some |-> FALSE, v |-> 0]
SomeInt(n) == [some |-> TRUE, v |-> n]
\* the empty dict {}
EmptyDict == << >>

AsciiDigits == {"0", "1", "2", "3", "4", "5", "6", "7", "8", "9"}
\* characters c with c.isdigit(): the decimal digits and the digit-like
\* characters of category No such as U+00B2
IsDigitChars == AsciiDigits \cup {"sup2"}
\* characters c with c.isspace()
Whitespace == {" ", "\n"}
HexChars == AsciiDigits \cup {"a", "b", "c", "d", "e", "f"}

DigitValue(c) ==
  CASE c = "0" -> 0 [] c = "1" -> 1 [] c = "2" -> 2 [] c = "3" -> 3
    [] c = "4" -> 4 [] c = "5" -> 5 [] c = "6" -> 6 [] c = "7" -> 7
    [] c = "8" -> 8 [] c = "9" -> 9

DigitChar(d) ==
  CASE d = 0 -> "0" [] d = 1 -> "1" [] d = 2 -> "2" [] d = 3 -> "3"
    [] d = 4 -> "4" [] d = 5 -> "5" [] d = 6 -> "6" [] d = 7 -> "7"
    [] d = 8 -> "8" [] d = 9 -> "9"

Min(S) == CHOOSE x \in S : \A y \in S : x <= y

(***************************************************************************)
(* str methods                                                             *)
(***************************************************************************)
\* s.startswith(pat, i-1): pat occurs in s at (1-based) position i
StartsWithAt(s, i, pat) ==
  /\ i >= 1
  /\ i + Len(pat) - 1 <= Len(s)
  /\ \A k \in 1..Len(pat) : s[i + k - 1] = pat[k]

\* the positions at which pat occurs in s
Occurrences(s, pat) == {i \in 1..Len(s) : StartsWithAt(s, i, pat)}

\* c in s, for a single character c
Contains(s, c) == \E i \in 1..Len(s) : s[i] = c

\* s.split(sep) for a single-character separator: always at least one piece
RECURSIVE Split(_, _)
Split(s, sep) ==
  LET hits == {i \in 1..Len(s) : s[i] = sep}
  IN  IF hits = {} THEN <<s>>
      ELSE LET i == Min(hits)
           IN  <<SubSeq(s, 1, i - 1)>> \o Split(SubSeq(s, i + 1, Len(s)), sep)

\* s.strip()
Strip(s) ==
  LET keep == {i \in 1..Len(s) : s[i] \notin Whitespace}
  IN  IF keep = {} THEN <<>>
      ELSE SubSeq(s, Min(keep), CHOOSE j \in keep : \A k \in keep : k <= j)

\* s.isdigit(): non-empty and every character digit-like
IsDigit(s) == Len(s) > 0 /\ \A i \in 1..Len(s) : s[i] \in IsDigitChars

\* the value of a non-empty run of ASCII digits
RECURSIVE DecValue(_)
DecValue(s) ==
  IF Len(s) = 0 THEN 0
  ELSE 10 * DecValue(SubSeq(s, 1, Len(s) - 1)) + DigitValue(s[Len(s)])

\* int(s): surrounding whitespace and one leading sign are accepted, then at
\* least one decimal digit and nothing else; ValueError otherwise
ValueError == [ok |-> FALSE]
PyInt(s) ==
  LET t == Strip(s)
      signed == Len(t) > 0 /\ t[1] \in {"+", "-"}
      body == IF signed THEN SubSeq(t, 2, Len(t)) ELSE t
  IN  IF Len(body) > 0 /\ \A i \in 1..Len(body) : body[i] \in AsciiDigits
      THEN [ok |-> TRUE, v |-> IF signed /\ t[1] = "-" THEN 0 - DecValue(body)
                                ELSE DecValue(body)]
      ELSE ValueError

\* f"{n}" for an int n >= 0
RECURSIVE IntToStr(_)
IntToStr(n) ==
  IF n < 10 THEN <<DigitChar(n)>>
  ELSE IntToStr(n \div 10) \o <<DigitChar(n % 10)>>

\* sep.join(pieces)
RECURSIVE Join(_, _)
Join(pieces, sep) ==
  IF Len(pieces) = 0 THEN <<>>
  ELSE IF Len(pieces) = 1 THEN pieces[1]
  ELSE pieces[1] \o <<sep>> \o Join(Tail(pieces), sep)

\* [line.strip() for line in section.split("\n") if line.strip()]
NonBlankLines(section) ==
  LET raw == Split(section, "\n")
      kept == SelectSeq(raw, LAMBDA l : Strip(l) # <<>>)
  IN  [i \in 1..Len(kept) |-> Strip(kept[i])]

(***************************************************************************)
(* Section tags                                                            *)
(***************************************************************************)
AnyTag == <<"[", "3">>
TagMatch == <<"[", "3", "MATCH]">>
TagTeams == <<"[", "3", "TEAMS]">>
TagPlayersH == <<"[", "3", "PLAYERS-H]">>
TagPlayersV == <<"[", "3", "PLAYERS-V]">>
TagAttack == <<"[", "3", "ATTACKCOMBINATION]">>
TagSetterCall == <<"[", "3", "SETTERCALL]">>
TagSet == <<"[", "3", "SET]">>
BlankLine == <<"\n", "\n">>

\* "$" without re.MULTILINE: the end of the text, or just before a newline
\* that ends the text
AtDollar(s, p) == p = Len(s) + 1 \/ (p = Len(s) /\ s[p] = "\n")

\* a mutant: the lookahead alternatives are tried one after the other over
\* the whole text, the first alternative that occurs anywhere ends the body
SectionSearchByAlternative(s, tag, stops) ==
  LET occ == Occurrences(s, tag)
  IN  IF occ = {} THEN None
      ELSE LET from == Min(occ) + Len(tag)
               at(k) == {p \in from..(Len(s) + 1) : StartsWithAt(s, p, stops[k])}
               hit == {k \in 1..Len(stops) : at(k) # {}}
               dollar == {p \in from..(Len(s) + 1) : AtDollar(s, p)}
           IN  SubSeq(s, from,
                      (IF hit = {} THEN Min(dollar) ELSE Min(at(Min(hit)))) - 1)

\* re.search(tag + r"(.*?)(?=" + "|".join(stops) + "|$)", s, re.DOTALL):
\* group(1) at the first occurrence of tag, None when the tag is absent.
\* The lazy group ends at the first position where a lookahead alternative
\* matches.
SectionSearch(s, tag, stops) ==
  LET occ == Occurrences(s, tag)
  IN  IF occ = {} THEN None
      ELSE LET from == Min(occ) + Len(tag)
               ends == {p \in from..(Len(s) + 1) :
                          \/ \E k \in 1..Len(stops) : StartsWithAt(s, p, stops[k])
                          \/ AtDollar(s, p)}
           IN  SubSeq(s, from, Min(ends) - 1)

(***************************************************************************)
(* datavolley/utils/metadata.py                                            *)
(***************************************************************************)
\* the first position >= from with s[from..p-1] free of "\n" at which five
\* decimal digits start (0 when there is none): ".*?(\d{5,})" without DOTALL
DigitRunStart(s, from) ==
  LET starts == {p \in from..Len(s) :
                   /\ \A k \in from..(p - 1) : s[k] # "\n"
                   /\ p + 4 <= Len(s)
                   /\ \A k \in p..(p + 4) : s[k] \in AsciiDigits}
  IN  IF starts = {} THEN 0 ELSE Min(starts)

\* the greedy \d{5,} group that starts at p
DigitRunAt(s, p) ==
  LET stop == {k \in p..Len(s) : s[k] \notin AsciiDigits} \cup {Len(s) + 1}
  IN  SubSeq(s, p, Min(stop) - 1)

\* r"\[3MATCH\]\s*([^;]+;[^;]+;[^;]*;[^;]*;[^;]*;[^;]*;[^;]*;([^;]+))" tried
\* at the tag at position q: group(1).split(";"), or None when it does not
\* match there.  Every field is the run of non-';' characters up to the next
\* ';' (the eighth up to the next ';' or the end of the text); the first,
\* second and eighth must be non-empty; \s* gives back whitespace so that the
\* first field is non-empty.
HeaderPartsAt(s, q) ==
  LET rest == SubSeq(s, q + Len(TagMatch), Len(s))
      pieces == Split(rest, ";")
      lead == {k \in 0..Len(pieces[1]) :
                 \A i \in 1..k : pieces[1][i] \in Whitespace}
      skip == CHOOSE k \in lead :
                /\ k < Len(pieces[1])
                /\ \A j \in lead : j < Len(pieces[1]) => j <= k
  IN  IF /\ Len(pieces) >= 8
         /\ pieces[1] # <<>>
         /\ pieces[2] # <<>>
         /\ pieces[8] # <<>>
      THEN [i \in 1..8 |-> IF i = 1
                            THEN SubSeq(pieces[1], skip + 1, Len(pieces[1]))
                            ELSE pieces[i]]
      ELSE None

\* re.search(match_pattern, raw_content): the parts of the leftmost match
HeaderParts(s) ==
  LET hits == {q \in Occurrences(s, TagMatch) : HeaderPartsAt(s, q) # None}
  IN  IF hits = {} THEN None ELSE HeaderPartsAt(s, Min(hits))

\* re.search(r"\[3MATCH\].*?(\d{5,})", raw_content): group(1) or None
FallbackMatch(s) ==
  LET hits == {q \in Occurrences(s, TagMatch) :
                 DigitRunStart(s, q + Len(TagMatch)) # 0}
  IN  IF hits = {} THEN None
      ELSE DigitRunAt(s, DigitRunStart(s, Min(hits) + Len(TagMatch)))

\* a mutant: the token is cut to 6 characters
GenerateMatchIdShortToken(raw_content, hex) ==
  LET parts == HeaderParts(raw_content)
      fallback_match == FallbackMatch(raw_content)
  IN  IF parts # None /\ Len(parts) >= 8 /\ Strip(parts[8]) # <<>>
      THEN Strip(parts[8])
      ELSE IF fallback_match # None THEN fallback_match
      ELSE SubSeq(hex, 1, 6)

\* a mutant: the digit-run step is left out
GenerateMatchIdNoDigitStep(raw_content, hex) ==
  LET parts == HeaderParts(raw_content)
  IN  IF parts # None /\ Len(parts) >= 8 /\ Strip(parts[8]) # <<>>
      THEN Strip(parts[8])
      ELSE SubSeq(hex, 1, 8)

\* generate_match_id(raw_content); hex is uuid.uuid4().hex
generate_match_id(raw_content, hex) ==
  LET parts == HeaderParts(raw_content)
      fallback_match == FallbackMatch(raw_content)
  IN  IF parts # None /\ Len(parts) >= 8 /\ Strip(parts[8]) # <<>>
      THEN Strip(parts[8])
      ELSE IF fallback_match # None THEN fallback_match
      ELSE SubSeq(hex, 1, 8)

\* f"team_1_set_{set_num}" and f"team_2_set_{set_num}"
Team1Prefix == <<"team", "_", "1", "_", "set", "_">>
Team2Prefix == <<"team", "_", "2", "_", "set", "_">>
Team1Key(set_num) == Team1Prefix \o IntToStr(set_num)
Team2Key(set_num) == Team2Prefix \o IntToStr(set_num)

\* a mutant: a side that is no integer counts as 0
ParsePairZeroForBad(text) ==
  LET pieces == Split(text, "-")
  IN  IF Len(pieces) < 2 THEN ValueError
      ELSE LET a == PyInt(Strip(pieces[1]))
               b == PyInt(Strip(pieces[2]))
           IN  [ok |-> TRUE, a |-> IF a.ok THEN a.v ELSE 0,
                b |-> IF b.ok THEN b.v ELSE 0]

\* team1_score, team2_score = text.split("-") and the two int() calls:
\* the pair, or ValueError (wrong number of pieces, or a piece int() rejects)
ParsePair(text) ==
  LET pieces == Split(text, "-")
  IN  IF Len(pieces) # 2 THEN ValueError
      ELSE LET a == PyInt(Strip(pieces[1]))
               b == PyInt(Strip(pieces[2]))
           IN  IF a.ok /\ b.ok THEN [ok |-> TRUE, a |-> a.v, b |-> b.v]
               ELSE ValueError

\* a mutant: the first field that holds '-' decides, parsed or not
RECURSIVE FirstPairNoSkip(_, _)
FirstPairNoSkip(parts, i) ==
  IF i > 5 THEN ValueError
  ELSE IF Contains(parts[i], "-") THEN ParsePair(parts[i])
       ELSE FirstPairNoSkip(parts, i + 1)

\* the body of the loop of extract_set_scores for one line: the pair the
\* line records, or ValueError-shaped "nothing recorded"
RECURSIVE FirstPair(_, _)
FirstPair(parts, i) ==
  IF i > 5 THEN ValueError
  ELSE IF Contains(parts[i], "-") /\ ParsePair(parts[i]).ok
       THEN ParsePair(parts[i])
       ELSE FirstPair(parts, i + 1)

\* a mutant: a set that is not yet played is recorded as 0-0
SetLineScoreZeroNotPlayed(line) ==
  LET parts == Split(line, ";")
  IN  IF Len(parts) < 6 THEN ValueError
      ELSE IF \A i \in 2..5 : Strip(parts[i]) = <<>>
           THEN [ok |-> TRUE, a |-> 0, b |-> 0]
      ELSE IF Contains(Strip(parts[5]), "-") THEN ParsePair(Strip(parts[5]))
      ELSE IF IsDigit(Strip(parts[6])) /\ \E i \in 2..5 : Contains(parts[i], "-")
           THEN FirstPair(parts, 2)
      ELSE ValueError

\* one set line: the pair it records, or nothing recorded
SetLineScore(line) ==
  LET parts == Split(line, ";")
  IN  IF Len(parts) < 6 THEN ValueError
      ELSE LET final_score == Strip(parts[5])
               final_team_score == Strip(parts[6])
               all_scores_empty == \A i \in 2..5 : Strip(parts[i]) = <<>>
           IN  IF all_scores_empty /\ IsDigit(final_team_score) THEN ValueError
               ELSE IF Contains(final_score, "-") THEN ParsePair(final_score)
               ELSE IF /\ IsDigit(final_team_score)
                       /\ \E i \in 2..5 : Contains(parts[i], "-")
                    THEN FirstPair(parts, 2)
               ELSE ValueError

\* a mutant: the set counter counts only the lines that record a score
RECURSIVE ScoreLinesRetry(_, _, _)
ScoreLinesRetry(lines, set_num, set_scores_in) ==
  IF lines = <<>> THEN set_scores_in
  ELSE LET r == SetLineScore(Head(lines))
       IN  IF r.ok
           THEN ScoreLinesRetry(Tail(lines), set_num + 1,
                  (Team1Key(set_num) :> r.a) @@ (Team2Key(set_num) :> r.b)
                    @@ set_scores_in)
           ELSE ScoreLinesRetry(Tail(lines), set_num, set_scores_in)

\* for set_num, line in enumerate(lines, 1): ...
RECURSIVE ScoreLines(_, _, _)
ScoreLines(lines, set_num, set_scores_in) ==
  IF set_num > Len(lines) THEN set_scores_in
  ELSE LET r == SetLineScore(lines[set_num])
       IN  ScoreLines(lines, set_num + 1,
             IF r.ok
             THEN (Team1Key(set_num) :> r.a) @@ (Team2Key(set_num) :> r.b)
                    @@ set_scores_in
             ELSE set_scores_in)

\* extract_set_scores(raw_content)
extract_set_scores(raw_content) ==
  LET section == SectionSearch(raw_content, TagSet, <<AnyTag>>)
  IN  IF section = None THEN EmptyDict
      ELSE ScoreLines(NonBlankLines(Strip(section)), 1, EmptyDict)

\* key.startswith("team_1_set_")
IsTeam1Key(key) == StartsWithAt(key, 1, Team1Prefix)

\* a mutant: the piece before the last one is read as the set number
KeySetNumWrongPiece(key) ==
  LET pieces == Split(key, "_") IN PyInt(pieces[Len(pieces) - 1])

\* int(key.split("_")[-1])
KeySetNum(key) ==
  LET pieces == Split(key, "_") IN PyInt(pieces[Len(pieces)])

\* an exception that leaves the function: nothing catches it
Raises(exc) == [raised |-> exc]

\* get_match_result(set_scores): the result dict; the ValueError of int()
\* leaves the function when a team_1_set_ key does not end in an integer
get_match_result(scores) ==
  IF scores = EmptyDict THEN EmptyDict
  ELSE LET t1keys == {k \in DOMAIN scores : IsTeam1Key(k)}
       IN  IF \E k \in t1keys : ~KeySetNum(k).ok THEN Raises("ValueError")
           ELSE LET both == {k \in t1keys :
                              /\ Team1Key(KeySetNum(k).v) \in DOMAIN scores
                              /\ Team2Key(KeySetNum(k).v) \in DOMAIN scores}
                    s1(k) == scores[Team1Key(KeySetNum(k).v)]
                    s2(k) == scores[Team2Key(KeySetNum(k).v)]
                    team_1_sets_won == Cardinality({k \in both : s1(k) > s2(k)})
                    team_2_sets_won == Cardinality({k \in both : s2(k) > s1(k)})
               IN  [team_1_sets_won |-> team_1_sets_won,
                    team_2_sets_won |-> team_2_sets_won,
                    total_sets_played |-> Cardinality(both),
                    match_winner |->
                      IF team_1_sets_won > team_2_sets_won THEN "team_1"
                      ELSE IF team_2_sets_won > team_1_sets_won THEN "team_2"
                      ELSE "tie"]

(***************************************************************************)
(* datavolley/core/players.py                                              *)
(***************************************************************************)
\* x if x else None, for a str x
OrNone(x) == IF x # <<>> THEN x ELSE None

\* d.get(key, default)
DictGet(d, key, default) == IF key \in DOMAIN d THEN d[key] ELSE default

\* what a line decoder returns for a line it drops (Python's None)
Rejected == [rejected |-> TRUE]

\* [r for r in records if r]: the records of the lines that were decoded
Decoded(records) == SelectSeq(records, LAMBDA r : r # Rejected)

\* the fewest fields of a line that is decoded: len(parts) >= 2 for a team,
\* and not len(parts) < 10, < 5, < 3 for a player, an attack combination, a
\* setter call
MinTeamFields == 2
MinPlayerFields == 10
MinAttackFields == 5
MinSetterFields == 3

\* for i, line in enumerate(lines): ... of extract_teams; lines[i] is the
\* line that Python numbers i - 1
RECURSIVE TeamsLines(_, _, _)
TeamsLines(lines, i, teams_data) ==
  IF i > Len(lines) THEN teams_data
  ELSE LET parts == Split(lines[i], ";")
       IN  TeamsLines(lines, i + 1,
             IF ~(Len(parts) >= MinTeamFields) THEN teams_data
             ELSE IF i = 1 THEN ("team_1" :> OrNone(parts[2])) @@ teams_data
             ELSE IF i = 2 THEN ("team_2" :> OrNone(parts[2])) @@ teams_data
             ELSE teams_data)

\* extract_teams(raw_content)
extract_teams(raw_content) ==
  LET section == SectionSearch(raw_content, TagTeams, <<AnyTag, BlankLine>>)
  IN  IF section = None THEN EmptyDict
      ELSE TeamsLines(NonBlankLines(Strip(section)), 1, EmptyDict)

\* " ".join(filter(None, [first_name, last_name])) or None
FullName(first_name, last_name) ==
  IF first_name # None /\ last_name # None
  THEN first_name \o <<" ">> \o last_name
  ELSE IF first_name # None THEN first_name
  ELSE last_name

\* a mutant: a line without identifier keeps the absent identifier
ParseSinglePlayerNoToken(line, team, token) ==
  LET parts == Split(line, ";")
  IN  IF Len(parts) < MinPlayerFields THEN Rejected
      ELSE [team |-> team,
            player_number |-> IF parts[2] # <<>> THEN parts[2] ELSE <<"0">>,
            player_id |-> OrNone(parts[9]),
            last_name |-> OrNone(parts[10]),
            first_name |-> IF Len(parts) > 10 THEN OrNone(parts[11]) ELSE None,
            role |-> IF Len(parts) > 12 THEN OrNone(parts[13]) ELSE None,
            full_name |-> None]

\* parse_single_player(line, team); token is the value of
\* "".join(random.choices(string.ascii_letters + string.digits, k=6))
parse_single_player(line, team, token) ==
  LET parts == Split(line, ";")
  IN  IF Len(parts) < MinPlayerFields THEN Rejected
      ELSE LET last_name == OrNone(parts[10])
               first_name == IF Len(parts) > 10 THEN OrNone(parts[11]) ELSE None
           IN  [team |-> team,
                player_number |-> IF parts[2] # <<>> THEN parts[2] ELSE <<"0">>,
                player_id |-> IF parts[9] # <<>> THEN parts[9] ELSE token,
                last_name |-> last_name,
                first_name |-> first_name,
                role |-> IF Len(parts) > 12 THEN OrNone(parts[13]) ELSE None,
                full_name |-> FullName(first_name, last_name)]

\* parse_player_lines(section_content, team); tokens[i] is the token drawn
\* for the i-th line, should it need one
parse_player_lines(section_content, team, tokens) ==
  LET lines == NonBlankLines(section_content)
  IN  Decoded([i \in 1..Len(lines) |->
        parse_single_player(lines[i], team, tokens[((i - 1) % Len(tokens)) + 1])])

\* a mutant: the home section stops only at a blank line or the end
HomeSectionNoTagStop(raw_content) ==
  SectionSearch(raw_content, TagPlayersH, <<BlankLine>>)

\* re.search(home_pattern, raw_content, re.DOTALL)
HomeSection(raw_content) ==
  SectionSearch(raw_content, TagPlayersH, <<TagPlayersV, AnyTag, BlankLine>>)

\* a mutant: the visiting section stops only at a blank line or the end
VisitingSectionNoTagStop(raw_content) ==
  SectionSearch(raw_content, TagPlayersV, <<BlankLine>>)

\* re.search(visiting_pattern, raw_content, re.DOTALL)
VisitingSection(raw_content) ==
  SectionSearch(raw_content, TagPlayersV, <<AnyTag, BlankLine>>)

\* extract_players(raw_content)
extract_players(raw_content, tokens_home, tokens_visiting) ==
  LET teams_data == extract_teams(raw_content)
      home_match == HomeSection(raw_content)
      visiting_match == VisitingSection(raw_content)
  IN  [home |-> IF home_match = None THEN <<>>
                ELSE parse_player_lines(Strip(home_match),
                       DictGet(teams_data, "team_1", <<"Home">>), tokens_home),
       visiting |-> IF visiting_match = None THEN <<>>
                    ELSE parse_player_lines(Strip(visiting_match),
                           DictGet(teams_data, "team_2", <<"Visiting">>),
                           tokens_visiting)]

(***************************************************************************)
(* datavolley/core/attack_combos.py and datavolley/core/set_calls.py       *)
(***************************************************************************)
\* a mutant: the guard is what int() accepts
IntGuardByInt(parts, k) == Len(parts) > k /\ PyInt(parts[k + 1]).ok

\* the condition "len(parts) > k and parts[k].isdigit()"; parts[k] of Python
\* is parts[k + 1] here
IntGuard(parts, k) == Len(parts) > k /\ IsDigit(parts[k + 1])

\* a mutant: the number is read from the field before
OptionalIntWrongField(parts, k) ==
  IF Len(parts) > k /\ PyInt(parts[k]).ok THEN SomeInt(PyInt(parts[k]).v)
  ELSE NoneInt

\* int(parts[k]) if len(parts) > k and parts[k].isdigit() else None
OptionalInt(parts, k) ==
  IF IntGuard(parts, k) THEN SomeInt(PyInt(parts[k + 1]).v) ELSE NoneInt

\* int(parts[k]) raises ValueError
IntRaises(parts, k) == IntGuard(parts, k) /\ ~PyInt(parts[k + 1]).ok

\* parts[k] if len(parts) > k and parts[k] else None
OptionalStr(parts, k) ==
  IF Len(parts) > k THEN OrNone(parts[k + 1]) ELSE None

\* parts[k] if len(parts) > k else None
FieldOrNone(parts, k) == IF Len(parts) > k THEN parts[k + 1] ELSE None

\* parse_attack_combo_line(line)
parse_attack_combo_line(line) ==
  LET parts == Split(line, ";")
  IN  IF Len(parts) < MinAttackFields THEN Rejected
      ELSE IF \E k \in {1, 6, 7} : IntRaises(parts, k) THEN Rejected
      ELSE [code |-> OrNone(parts[1]),
            zone |-> OptionalInt(parts, 1),
            position |-> OrNone(parts[3]),
            type |-> OrNone(parts[4]),
            description |-> OrNone(parts[5]),
            field_5 |-> FieldOrNone(parts, 5),
            color_code |-> OptionalInt(parts, 6),
            position_code |-> OptionalInt(parts, 7),
            set_direction |-> OptionalStr(parts, 8),
            backrow |-> Len(parts) > 9 /\ parts[10] = <<"1">>,
            field_10 |-> FieldOrNone(parts, 10),
            raw_data |-> parts]

\* extract_attack_combinations(raw_content)
extract_attack_combinations(raw_content) ==
  LET section == SectionSearch(raw_content, TagAttack,
                               <<TagSetterCall, AnyTag, BlankLine>>)
  IN  IF section = None THEN <<>>
      ELSE LET lines == NonBlankLines(Strip(section))
           IN  Decoded([i \in 1..Len(lines) |-> parse_attack_combo_line(lines[i])])

\* a mutant: the pieces are trimmed, the empty ones are kept
CommaListKeepEmpty(text) ==
  LET pieces == Split(text, ",")
  IN  [i \in 1..Len(pieces) |-> Strip(pieces[i])]

\* [code.strip() for code in text.split(",") if code.strip()]
CommaList(text) ==
  LET pieces == Split(text, ",")
      kept == SelectSeq(pieces, LAMBDA c : Strip(c) # <<>>)
  IN  [i \in 1..Len(kept) |-> Strip(kept[i])]

\* parse_setter_call_line(line)
parse_setter_call_line(line) ==
  LET parts == Split(line, ";")
      additional_codes == OptionalStr(parts, 8)
  IN  IF Len(parts) < MinSetterFields THEN Rejected
      ELSE IF \E k \in {4, 5, 6, 7, 9} : IntRaises(parts, k) THEN Rejected
      ELSE [code |-> OrNone(parts[1]),
            field_1 |-> FieldOrNone(parts, 1),
            description |-> OrNone(parts[3]),
            field_3 |-> FieldOrNone(parts, 3),
            color_code |-> OptionalInt(parts, 4),
            position_1 |-> OptionalInt(parts, 5),
            position_2 |-> OptionalInt(parts, 6),
            position_3 |-> OptionalInt(parts, 7),
            additional_codes |-> additional_codes,
            field_9 |-> OptionalInt(parts, 9),
            raw_data |-> parts,
            additional_codes_list |->
              IF additional_codes # None THEN CommaList(additional_codes)
              ELSE <<>>]

\* extract_setter_calls(raw_content)
extract_setter_calls(raw_content) ==
  LET section == SectionSearch(raw_content, TagSetterCall, <<AnyTag, BlankLine>>)
  IN  IF section = None THEN <<>>
      ELSE LET lines == NonBlankLines(Strip(section))
           IN  Decoded([i \in 1..Len(lines) |-> parse_setter_call_line(lines[i])])

\* get_calls_with_additional_codes(setter_calls)
get_calls_with_additional_codes(calls) ==
  SelectSeq(calls, LAMBDA call : Len(call.additional_codes_list) > 0)

(***************************************************************************)
(* datavolley/core/players.py: get_starting_lineup                         *)
(***************************************************************************)
\* the loop over players_data[team]: the pairs (player_num, player) of the
\* players whose number int() accepts and finds greater than least
RECURSIVE ValidPlayers(_, _)
ValidPlayers(roster, least) ==
  IF roster = <<>> THEN <<>>
  ELSE LET player_num == PyInt(Head(roster).player_number)
       IN  (IF player_num.ok /\ player_num.v > least
            THEN << <<player_num.v, Head(roster)>> >> ELSE <<>>)
             \o ValidPlayers(Tail(roster), least)

\* list.sort(key=lambda x: x[0]): ascending, pairs of equal key in the
\* order they had
RECURSIVE SortByNumber(_)
SortByNumber(pairs) ==
  IF pairs = <<>> THEN <<>>
  ELSE LET low == Min({pairs[i][1] : i \in 1..Len(pairs)})
       IN  SelectSeq(pairs, LAMBDA x : x[1] = low)
             \o SortByNumber(SelectSeq(pairs, LAMBDA x : x[1] # low))

\* valid_players[:6]
LineupSize == 6

\* a mutant: the number 0 of a player without shirt number is valid
GetStartingLineupFromZero(players_data, team) ==
  IF team \notin DOMAIN players_data THEN <<>>
  ELSE LET valid_players == SortByNumber(ValidPlayers(players_data[team], 0 - 1))
       IN  [i \in 1..(IF Len(valid_players) < LineupSize THEN Len(valid_players)
                       ELSE LineupSize) |-> valid_players[i][2]]

\* get_starting_lineup(players_data, team)
get_starting_lineup(players_data, team) ==
  IF team \notin DOMAIN players_data THEN <<>>
  ELSE LET valid_players == SortByNumber(ValidPlayers(players_data[team], 0))
       IN  [i \in 1..(IF Len(valid_players) < LineupSize THEN Len(valid_players)
                       ELSE LineupSize) |-> valid_players[i][2]]


(***************************************************************************)
(* The caller: pc is the list of calls still to be made on the document,   *)
(* each action is one call of the public function of that name.            *)
(***************************************************************************)
\* uuid.uuid4().hex: 32 hexadecimal digits, a fresh value at every call
UuidHexSamples ==
  { [i \in 1..32 |-> IF i % 2 = 1 THEN "e" ELSE "2"],
    [i \in 1..32 |-> IF i <= 4 THEN "0" ELSE "f"],
    [i \in 1..32 |-> IF i <= 8 THEN "7" ELSE "a"] }

Calling(name) == pc # <<>> /\ Head(pc) = name
\* the call has been made (in a specification whose plan holds it)
Returned(name) == \A i \in 1..Len(pc) : pc[i] # name

GenerateMatchId ==
  /\ Calling("generate_match_id")
  /\ \E hex \in UuidHexSamples : match_id' = generate_match_id(doc, hex)
  /\ pc' = Tail(pc)
  /\ UNCHANGED <<calls_with_codes, starting_lineup>>
  /\ UNCHANGED <<doc, src, teams, set_scores, players, attack_combinations,
                 setter_calls, match_result>>

ExtractSetScores ==
  /\ Calling("extract_set_scores")
  /\ set_scores' = extract_set_scores(doc)
  /\ pc' = Tail(pc)
  /\ UNCHANGED <<calls_with_codes, starting_lineup>>
  /\ UNCHANGED <<doc, src, match_id, teams, players, attack_combinations,
                 setter_calls, match_result>>

GetMatchResult ==
  /\ Calling("get_match_result")
  /\ match_result' = get_match_result(set_scores)
  /\ pc' = Tail(pc)
  /\ UNCHANGED <<calls_with_codes, starting_lineup>>
  /\ UNCHANGED <<doc, src, match_id, teams, set_scores, players,
                 attack_combinations, setter_calls>>

\* the tokens random.choices draws for the lines of one roster
PlayerTokenSamples ==
  { << <<"a", "B", "3", "d", "E", "9">>, <<"Z", "z", "0", "Z", "z", "0">> >>,
    << <<"q", "1", "w", "2", "e", "3">>, <<"q", "1", "w", "2", "e", "3">> >> }

ExtractTeams ==
  /\ Calling("extract_teams")
  /\ teams' = extract_teams(doc)
  /\ pc' = Tail(pc)
  /\ UNCHANGED <<calls_with_codes, starting_lineup>>
  /\ UNCHANGED <<doc, src, match_id, set_scores, players, attack_combinations,
                 setter_calls, match_result>>

ExtractPlayers ==
  /\ Calling("extract_players")
  /\ \E th \in PlayerTokenSamples, tv \in PlayerTokenSamples :
       players' = extract_players(doc, th, tv)
  /\ pc' = Tail(pc)
  /\ UNCHANGED <<calls_with_codes, starting_lineup>>
  /\ UNCHANGED <<doc, src, match_id, teams, set_scores, attack_combinations,
                 setter_calls, match_result>>

ExtractAttackCombinations ==
  /\ Calling("extract_attack_combinations")
  /\ attack_combinations' = extract_attack_combinations(doc)
  /\ pc' = Tail(pc)
  /\ UNCHANGED <<calls_with_codes, starting_lineup>>
  /\ UNCHANGED <<doc, src, match_id, teams, set_scores, players, setter_calls,
                 match_result>>

ExtractSetterCalls ==
  /\ Calling("extract_setter_calls")
  /\ setter_calls' = extract_setter_calls(doc)
  /\ pc' = Tail(pc)
  /\ UNCHANGED <<calls_with_codes, starting_lineup>>
  /\ UNCHANGED <<doc, src, match_id, teams, set_scores, players,
                 attack_combinations, match_result>>

GetCallsWithAdditionalCodes ==
  /\ Calling("get_calls_with_additional_codes")
  /\ calls_with_codes' = get_calls_with_additional_codes(setter_calls)
  /\ pc' = Tail(pc)
  /\ UNCHANGED starting_lineup
  /\ UNCHANGED <<doc, src, match_id, teams, set_scores, players,
                 attack_combinations, setter_calls, match_result>>

\* the team key is the caller's: src.team
GetStartingLineup ==
  /\ Calling("get_starting_lineup")
  /\ starting_lineup' = get_starting_lineup(players, src.team)
  /\ pc' = Tail(pc)
  /\ UNCHANGED calls_with_codes
  /\ UNCHANGED <<doc, src, match_id, teams, set_scores, players,
                 attack_combinations, setter_calls, match_result>>

(***************************************************************************)
(* SpecSet: documents with a set-score table, decoded by                   *)
(* extract_set_scores and then get_match_result                            *)
(***************************************************************************)
\* the number of lines of the set section
MaxSetLines == 3

PairText(a, b) == IntToStr(a) \o <<"-">> \o IntToStr(b)
P1 == <<"P", "1">>

\* a line whose fifth field is the rendering of the pair (a, b)
PairLine(f2, a, b, f6) ==
  [text |-> Join(<<P1, f2, <<>>, <<>>, PairText(a, b), f6>>, ";"),
   blank |-> FALSE, pair |-> TRUE, a |-> a, b |-> b]
RawLine(text, blank) ==
  [text |-> text, blank |-> blank, pair |-> FALSE, a |-> 0, b |-> 0]

SetLineChoices ==
  { RawLine(<<" ">>, TRUE),
    RawLine(P1, FALSE),
    RawLine(Join(<<P1, <<>>, <<>>, <<>>, <<"x", "-", "2", "0">>, <<"2", "5">>>>, ";"), FALSE),
    RawLine(Join(<<P1, <<"8", "-", "5">>, <<>>, <<>>, <<>>, <<"2", "5">>>>, ";"), FALSE),
    RawLine(Join(<<P1, <<>>, <<>>, <<>>, <<>>, <<"2", "5">>>>, ";"), FALSE),
    PairLine(<<>>, 25, 20, <<"2", "5">>),
    PairLine(<<"8", "-", "5">>, 20, 25, <<"x">>),
    PairLine(<<>>, 107, 107, <<>>) }

SetSources ==
  { [shape |-> sh, lines |-> ls] :
      sh \in {"only", "followed", "absent"},
      ls \in UNION {[1..n -> SetLineChoices] : n \in 0..MaxSetLines} }

LineTexts(ls) == [i \in 1..Len(ls) |-> ls[i].text]

\* the document of a source: the lines under [3SET] ("only"), the same
\* followed by another section that holds a score line ("followed"), or the
\* lines under another tag, with no [3SET] at all ("absent")
SetDoc(s) ==
  LET body == Join(LineTexts(s.lines), "\n") \o <<"\n">>
  IN  CASE s.shape = "only" -> TagSet \o <<"\n">> \o body
        [] s.shape = "followed" ->
             TagSet \o <<"\n">> \o body \o TagPlayersH \o <<"\n">>
               \o PairLine(<<>>, 15, 10, <<"1", "5">>).text \o <<"\n">>
        [] s.shape = "absent" -> TagPlayersH \o <<"\n">> \o body

InitSet ==
  /\ src \in SetSources
  /\ doc = SetDoc(src)
  /\ pc = <<"extract_set_scores", "get_match_result">>
  /\ match_id = Unset /\ teams = Unset /\ set_scores = Unset
  /\ players = Unset /\ attack_combinations = Unset
  /\ setter_calls = Unset /\ match_result = Unset
  /\ calls_with_codes = Unset /\ starting_lineup = Unset

NextSet == ExtractSetScores \/ GetMatchResult

SpecSet == InitSet /\ [][NextSet]_vars

\* the non-blank lines of the source, in order
SrcNonBlank == SelectSeq(src.lines, LAMBDA l : ~l.blank)

\* C1: in a document with a [3SET] section, when the n-th non-blank line of
\* the section has at least 6 fields and its 5th field is 'a-b' with a and b
\* decimal integers, the table holds team_1_set_n = a and team_2_set_n = b,
\* n being the position among the non-blank lines whatever was skipped before.
C1_PairLineRecorded ==
  (Returned("extract_set_scores") /\ src.shape # "absent") =>
    \A n \in 1..Len(SrcNonBlank) :
      SrcNonBlank[n].pair =>
        /\ Team1Key(n) \in DOMAIN set_scores
        /\ Team2Key(n) \in DOMAIN set_scores
        /\ set_scores[Team1Key(n)] = SrcNonBlank[n].a
        /\ set_scores[Team2Key(n)] = SrcNonBlank[n].b

\* a pair line that follows a blank line and a skipped line is recorded
\* under its own position
C1_Witness ==
  /\ Returned("extract_set_scores")
  /\ src.shape = "followed"
  /\ Len(src.lines) = 3
  /\ src.lines[1].blank
  /\ ~src.lines[2].blank /\ ~src.lines[2].pair
  /\ src.lines[3].pair
  /\ set_scores = (Team1Key(2) :> src.lines[3].a) @@ (Team2Key(2) :> src.lines[3].b)

\* C3: get_match_result on a table with no sets returns a zeroed result:
\* both sets-won counts 0 and winner 'tie'.
C3_EmptyTableIsTie ==
  (Returned("get_match_result") /\ set_scores = EmptyDict) =>
    /\ DOMAIN match_result = {"team_1_sets_won", "team_2_sets_won",
                              "total_sets_played", "match_winner"}
    /\ match_result.team_1_sets_won = 0
    /\ match_result.team_2_sets_won = 0
    /\ match_result.match_winner = "tie"

(***************************************************************************)
(* SpecResult: get_match_result on set-score tables                        *)
(***************************************************************************)
\* the highest set index of a table
MaxSetIndex == 3

ScoreChoices == {NoneInt, SomeInt(20), SomeInt(23), SomeInt(25)}

\* one source per table: for each set index the score of each side, if any
ResultSources ==
  [1..MaxSetIndex -> [s1 : ScoreChoices, s2 : ScoreChoices]]

Entry(key, score) == IF score.some THEN key :> score.v ELSE EmptyDict

RECURSIVE TableOf(_, _)
TableOf(s, n) ==
  IF n = 0 THEN EmptyDict
  ELSE Entry(Team1Key(n), s[n].s1) @@ Entry(Team2Key(n), s[n].s2)
         @@ TableOf(s, n - 1)

InitResult ==
  /\ src \in ResultSources
  /\ set_scores = TableOf(src, MaxSetIndex)
  /\ doc = <<>>
  /\ pc = <<"get_match_result">>
  /\ match_id = Unset /\ teams = Unset
  /\ players = Unset /\ attack_combinations = Unset
  /\ setter_calls = Unset /\ match_result = Unset
  /\ calls_with_codes = Unset /\ starting_lineup = Unset

NextResult == GetMatchResult

SpecResult == InitResult /\ [][NextResult]_vars

SrcBoth == {n \in 1..MaxSetIndex : src[n].s1.some /\ src[n].s2.some}
SrcWon1 == Cardinality({n \in SrcBoth : src[n].s1.v > src[n].s2.v})
SrcWon2 == Cardinality({n \in SrcBoth : src[n].s2.v > src[n].s1.v})

ResultAgrees ==
  /\ DOMAIN match_result = {"team_1_sets_won", "team_2_sets_won",
                            "total_sets_played", "match_winner"}
  /\ match_result.team_1_sets_won = SrcWon1
  /\ match_result.team_2_sets_won = SrcWon2
  /\ (match_result.match_winner = "team_1") <=> (SrcWon1 > SrcWon2)
  /\ (match_result.match_winner = "team_2") <=> (SrcWon2 > SrcWon1)
  /\ (match_result.match_winner = "tie") <=> (SrcWon1 = SrcWon2)

\* C2: for every set-score table, team_1_sets_won (team_2_sets_won) is the
\* number of set indices recorded for both sides where side 1 (side 2) is
\* strictly higher, equal scores count for neither, and match_winner is
\* team_1, team_2 or tie as the counts compare.
C2_ResultOfEveryTable == Returned("get_match_result") => ResultAgrees

\* the same on the tables that hold at least one entry
C2_ResultOfNonEmptyTable ==
  (Returned("get_match_result") /\ set_scores # EmptyDict) => ResultAgrees

\* the table {1:(25,20), 2:(20,25), 3:(25,23)} gives 2 sets to 1, team_1
C2_Example ==
  ( /\ Returned("get_match_result")
    /\ MaxSetIndex >= 3
    /\ src[1] = [s1 |-> SomeInt(25), s2 |-> SomeInt(20)]
    /\ src[2] = [s1 |-> SomeInt(20), s2 |-> SomeInt(25)]
    /\ src[3] = [s1 |-> SomeInt(25), s2 |-> SomeInt(23)]
    /\ \A n \in 4..MaxSetIndex : src[n] = [s1 |-> NoneInt, s2 |-> NoneInt] )
  => /\ match_result.team_1_sets_won = 2
     /\ match_result.team_2_sets_won = 1
     /\ match_result.match_winner = "team_1"

(***************************************************************************)
(* SpecMatch: documents with a match header, decoded by generate_match_id  *)
(***************************************************************************)
Run6 == <<"1", "2", "3", "4", "5", "6">>
Run6b == <<"6", "5", "4", "3", "2", "1">>

\* what follows the tag on its own line, with the run of 5+ digits it holds
TagLineChoices ==
  { [text |-> <<>>, run |-> None],
    [text |-> <<" ">> \o Run6, run |-> Run6] }

\* the fields 3 to 7 of the header line, with the run of 5+ digits they hold
MidChoices ==
  { [fields |-> <<<<>>, <<>>, <<>>, <<>>, <<>>>>, run |-> None],
    [fields |-> <<<<"1", "2", "3", "4">>, <<>>, <<>>, <<>>, <<>>>>, run |-> None],
    [fields |-> <<<<>>, <<>>, Run6b, <<>>, <<>>>>, run |-> Run6b] }

\* an eighth field that is not blank, and one that is
F8NonBlank == { <<"A", "B", "C">>, <<"9", "8", "7", "6", "5">>,
                <<" ", "A", " ", "B", " ">> }
F8Blank == { <<>>, <<" ">> }

\* the header line from its eighth field on: no eighth field, an eighth
\* field that ends the line, an eighth field followed by a ninth
RestChoices ==
  {<<>>} \cup {<<f8>> : f8 \in F8NonBlank \cup F8Blank}
         \cup {<<f8, <<"z">>>> : f8 \in F8NonBlank \cup F8Blank}

\* the text after the header line, as its ';'-separated pieces
TailChoices ==
  { << <<>> >>,
    << TagTeams \o <<"\n", "i">>, <<"N">>, <<"\n">> >> }

MatchSources ==
  { [present |-> TRUE, tagline |-> tl, line |-> <<f1, f2>> \o mid.fields \o rest,
     midrun |-> mid.run, tail |-> tail] :
      tl \in TagLineChoices, f1 \in {<<>>, <<"d">>}, f2 \in {<<>>, <<"t">>},
      mid \in MidChoices, rest \in RestChoices, tail \in TailChoices }
  \cup
  { [present |-> FALSE, tagline |-> tl, line |-> <<>>, midrun |-> None,
     tail |-> tail] : tl \in TagLineChoices, tail \in TailChoices }

\* the document of a source; without the tag, the text of the tag line and
\* the tail stand alone
MatchDoc(s) ==
  IF s.present
  THEN TagMatch \o s.tagline.text \o <<"\n">> \o Join(s.line, ";") \o <<"\n">>
         \o Join(s.tail, ";")
  ELSE s.tagline.text \o <<"\n">> \o Join(s.tail, ";")

InitMatch ==
  /\ src \in MatchSources
  /\ doc = MatchDoc(src)
  /\ pc = <<"generate_match_id">>
  /\ match_id = Unset /\ teams = Unset /\ set_scores = Unset
  /\ players = Unset /\ attack_combinations = Unset
  /\ setter_calls = Unset /\ match_result = Unset
  /\ calls_with_codes = Unset /\ starting_lineup = Unset

NextMatch == GenerateMatchId

SpecMatch == InitMatch /\ [][NextMatch]_vars

\* the header line of the source has an eighth field that is not blank
SrcHasField8 == src.present /\ Len(src.line) >= 8 /\ src.line[8] \in F8NonBlank
\* the eighth field of the source is blank or missing
SrcNoField8 == src.present /\ (Len(src.line) < 8 \/ src.line[8] \in F8Blank)

\* C4: when the header line has an 8th field that is present and not blank,
\* the match id is exactly the text of that field, whatever the other seven
\* fields hold.
C4_Field8Verbatim ==
  (Returned("generate_match_id") /\ SrcHasField8) => match_id = src.line[8]

\* C5: when the 8th field is blank or missing and the header area (the line
\* of the tag, or the header data line after it) holds a run of at least 5
\* digits, the match id is the first such run.
C5_FirstDigitRun ==
  ( /\ Returned("generate_match_id")
    /\ SrcNoField8
    /\ (src.tagline.run # None \/ src.midrun # None) )
  => match_id = (IF src.tagline.run # None THEN src.tagline.run ELSE src.midrun)

\* the ';'-separated pieces of the text after the tag: the tag line runs
\* into the first field and the last field of the line into the tail
SrcPieces ==
  LET n == Len(src.line)
  IN  <<src.tagline.text \o <<"\n">> \o src.line[1]>>
        \o SubSeq(src.line, 2, n - 1)
        \o <<src.line[n] \o <<"\n">> \o src.tail[1]>>
        \o Tail(src.tail)

\* the 8th-field step yields an id: the header pattern matches (8 fields,
\* the first two not empty) and the eighth field is not blank
SrcStep1 ==
  /\ src.present
  /\ Len(SrcPieces) >= 8
  /\ SrcPieces[2] # <<>>
  /\ \E i \in 1..Len(SrcPieces[8]) : SrcPieces[8][i] \notin Whitespace
\* the digit-run step yields an id: 5+ digits on the line of the tag
SrcStep2 == src.present /\ src.tagline.run # None

MaxSectionLines == 3

E == <<>>
BlankFields == << <<" ">> >>

TeamLineA == <<<<"i">>, <<"A">>, E>>
TeamLineB == <<<<"j">>, <<"B">>>>
TeamLineShort == <<<<"g">>>>
TeamLineNoName == <<<<"k">>, E>>

PlayerLine7 ==
  <<<<"0">>, <<"7">>, E, E, E, E, E, E, <<"I", "7">>, <<"L", "a">>, <<"F", "i">>, E, <<"L">>>>
PlayerLineNoId == <<<<"0">>, E, E, E, E, E, E, E, E, <<"L", "b">>>>
PlayerLineShort == <<<<"0">>, <<"9">>, E, E, E, E, E, E, <<"I", "9">>>>

AttackLineX1 ==
  <<<<"X", "1">>, <<"4">>, <<"R">>, <<"H">>, <<"d">>, E, <<"1", "2">>, <<"x">>, <<"F">>, <<"1">>>>
AttackLineV5 == <<<<"V", "5">>, E, E, E, E>>
AttackLineShort == <<<<"V", "6">>, <<"3">>, <<"R">>, <<"H">>>>
AttackLineSup2 == <<<<"V", "7">>, <<"sup2">>, <<"R">>, <<"H">>, <<"d">>>>

SetterLineK1 ==
  <<<<"K", "1">>, E, <<"Q">>, E, <<"3">>, <<"1">>, E, <<"x">>,
    <<"a", ",", " ", ",", "b", " ">>, <<"7">>>>
SetterLineK2 == <<<<"K", "2">>, E, E>>
SetterLineShort == <<<<"K", "3">>, E>>
SetterLineSup2 == <<<<"K", "4">>, E, <<"P">>, E, <<"sup2">>>>

TeamLineChoices == {TeamLineA, TeamLineB, TeamLineShort, BlankFields}
PlayerLineChoices == {PlayerLine7, PlayerLineNoId, PlayerLineShort, BlankFields}
AttackLineChoices ==
  {AttackLineX1, AttackLineV5, AttackLineShort, AttackLineSup2, BlankFields}
SetterLineChoices ==
  {SetterLineK1, SetterLineK2, SetterLineShort, SetterLineSup2, BlankFields}

SectionKinds == {"teams", "home", "visiting", "attack", "setter"}

TagOf(kind) ==
  CASE kind = "teams" -> TagTeams
    [] kind = "home" -> TagPlayersH
    [] kind = "visiting" -> TagPlayersV
    [] kind = "attack" -> TagAttack
    [] kind = "setter" -> TagSetterCall
    [] kind = "set" -> TagSet

LineChoicesOf(kind) ==
  CASE kind = "teams" -> TeamLineChoices
    [] kind \in {"home", "visiting"} -> PlayerLineChoices
    [] kind = "attack" -> AttackLineChoices
    [] kind = "setter" -> SetterLineChoices

MinFieldsOf(kind) ==
  CASE kind = "teams" -> MinTeamFields
    [] kind \in {"home", "visiting"} -> MinPlayerFields
    [] kind = "attack" -> MinAttackFields
    [] kind = "setter" -> MinSetterFields

\* the text of a section: its tag on a line, then its lines
SectionText(kind, lines) ==
  TagOf(kind) \o <<"\n">>
    \o Join([i \in 1..Len(lines) |-> Join(lines[i], ";")], "\n") \o <<"\n">>

\* a line of the kind with the most fields among its choices
LongestLineOf(kind) ==
  CHOOSE l \in LineChoicesOf(kind) : \A m \in LineChoicesOf(kind) : Len(m) <= Len(l)

SectionSources ==
  { [kind |-> k, lines |-> ls, followed |-> f] :
      k \in SectionKinds, f \in BOOLEAN,
      ls \in UNION {UNION {[1..n -> LineChoicesOf(kk)] : n \in 0..MaxSectionLines}
                      : kk \in SectionKinds} }

\* the document of a source: the section, alone or followed by a [3SET]
\* section that holds a line the kind would admit
SectionDoc(s) ==
  SectionText(s.kind, s.lines)
    \o (IF s.followed THEN SectionText("set", <<LongestLineOf(s.kind)>>) ELSE <<>>)

InitSection ==
  /\ src \in SectionSources
  /\ \A i \in 1..Len(src.lines) : src.lines[i] \in LineChoicesOf(src.kind)
  /\ doc = SectionDoc(src)
  /\ pc = <<"extract_teams", "extract_players", "extract_attack_combinations",
            "extract_setter_calls">>
  /\ match_id = Unset /\ teams = Unset /\ set_scores = Unset
  /\ players = Unset /\ attack_combinations = Unset
  /\ setter_calls = Unset /\ match_result = Unset
  /\ calls_with_codes = Unset /\ starting_lineup = Unset

NextSection ==
  \/ ExtractTeams
  \/ ExtractPlayers
  \/ ExtractAttackCombinations
  \/ ExtractSetterCalls

SpecSection == InitSection /\ [][NextSection]_vars

\* the lines of the source that pass the admission gate of its kind
AdmittedOf(kind, lines) ==
  SelectSeq(lines, LAMBDA l : l # BlankFields /\ Len(l) >= MinFieldsOf(kind))
SrcAdmitted == AdmittedOf(src.kind, src.lines)

\* the list is, record by record, the admitted lines of the source in order
SameLines(records, lines, sameLine(_, _)) ==
  /\ Len(records) = Len(lines)
  /\ \A i \in 1..Len(records) : sameLine(records[i], lines[i])
MatchesAdmitted(records, sameLine(_, _)) == SameLines(records, SrcAdmitted, sameLine)

SamePlayerLine(r, l) ==
  /\ r.last_name = l[10]
  /\ l[9] # <<>> => r.player_id = l[9]
SameRawData(r, l) == r.raw_data = l

AdmissionGate ==
  /\ (Returned("extract_players") /\ src.kind = "home") =>
        MatchesAdmitted(players.home, SamePlayerLine)
  /\ (Returned("extract_players") /\ src.kind = "visiting") =>
        MatchesAdmitted(players.visiting, SamePlayerLine)
  /\ (Returned("extract_attack_combinations") /\ src.kind = "attack") =>
        MatchesAdmitted(attack_combinations, SameRawData)
  /\ (Returned("extract_setter_calls") /\ src.kind = "setter") =>
        MatchesAdmitted(setter_calls, SameRawData)

\* C8: for the player, attack-combination and setter-call sections the list
\* returned is exactly the decodings of the non-blank lines with at least
\* the kind's minimum number of fields (10, 5, 3), in document order; a
\* shorter line yields no record and leaves the others as they are.
C8_AdmissionGate == AdmissionGate

\* the same on the sections whose numeric fields hold no digit-like
\* character outside 0-9
C8_AdmissionGateAscii ==
  (\A i \in 1..Len(src.lines) : \A j \in 1..Len(src.lines[i]) :
      ~Contains(src.lines[i][j], "sup2"))
  => AdmissionGate

\* the name of an admitted team line: its second field, None when empty
SrcTeamName(l) == IF l[2] = <<>> THEN None ELSE l[2]

\* C9: team_1 is the name of the first admitted line of [3TEAMS] and team_2
\* the name of the second admitted line, also when lines with fewer than 2
\* fields come before or between them.
C9_TeamsByAdmission ==
  (Returned("extract_teams") /\ src.kind = "teams") =>
    /\ Len(SrcAdmitted) >= 1 =>
         /\ "team_1" \in DOMAIN teams
         /\ teams["team_1"] = SrcTeamName(SrcAdmitted[1])
    /\ Len(SrcAdmitted) >= 2 =>
         /\ "team_2" \in DOMAIN teams
         /\ teams["team_2"] = SrcTeamName(SrcAdmitted[2])

\* the same when no line with fewer than 2 fields stands before the second
\* admitted line
C9_TeamsNoShortLine ==
  ( /\ Returned("extract_teams")
    /\ src.kind = "teams"
    /\ \A i \in 1..Len(src.lines) :
         (src.lines[i] # BlankFields /\ Len(src.lines[i]) < MinTeamFields)
           => \E j, k \in 1..(i - 1) :
                /\ j # k
                /\ Len(src.lines[j]) >= MinTeamFields
                /\ Len(src.lines[k]) >= MinTeamFields )
  => /\ Len(SrcAdmitted) >= 1 =>
          /\ "team_1" \in DOMAIN teams
          /\ teams["team_1"] = SrcTeamName(SrcAdmitted[1])
     /\ Len(SrcAdmitted) >= 2 =>
          /\ "team_2" \in DOMAIN teams
          /\ teams["team_2"] = SrcTeamName(SrcAdmitted[2])

\* string.ascii_letters + string.digits
AsciiLetters ==
  {"a", "b", "c", "d", "e", "f", "g", "h", "i", "j", "k", "l", "m", "n", "o", "p",
   "q", "r", "s", "t", "u", "v", "w", "x", "y", "z",
   "A", "B", "C", "D", "E", "F", "G", "H", "I", "J", "K", "L", "M", "N", "O", "P",
   "Q", "R", "S", "T", "U", "V", "W", "X", "Y", "Z"}
TokenAlphabet == AsciiLetters \cup AsciiDigits

\* the identifier of a record decoded from the line: its 9th field when it
\* has one, a token of 6 letters or digits otherwise
IdOfLine(r, l) ==
  /\ r.player_id # None
  /\ r.player_id # <<>>
  /\ IF l[9] # <<>> THEN r.player_id = l[9]
     ELSE /\ Len(r.player_id) = 6
          /\ \A k \in 1..6 : r.player_id[k] \in TokenAlphabet

\* C11: every player record returned by extract_players has a non-absent,
\* non-empty player_id: the 9th field of its line when that field is
\* non-empty, a generated token of exactly 6 ASCII letters or digits
\* otherwise.
C11_PlayerIdPresent ==
  Returned("extract_players") =>
    /\ src.kind = "home" => SameLines(players.home, SrcAdmitted, IdOfLine)
    /\ src.kind = "visiting" => SameLines(players.visiting, SrcAdmitted, IdOfLine)
    /\ src.kind \notin {"home", "visiting"} =>
         players.home = <<>> /\ players.visiting = <<>>

\* a roster decoded from a line with an identifier and a line without one
C11_Witness ==
  /\ Returned("extract_players")
  /\ src.kind = "visiting"
  /\ Len(players.visiting) = 2
  /\ \E i, j \in 1..Len(SrcAdmitted) : SrcAdmitted[i][9] # <<>> /\ SrcAdmitted[j][9] = <<>>

\* a token in a numeric position that is no run of the digits 0-9
Malformed(token) ==
  token # <<>> /\ \E i \in 1..Len(token) : token[i] \notin AsciiDigits

\* the attribute is absent where the field is missing, empty or malformed
AbsentIfMalformed(value, l, k) ==
  (Len(l) < k \/ l[k] = <<>> \/ Malformed(l[k])) => value = NoneInt

NumbersDegrade ==
  /\ (Returned("extract_attack_combinations") /\ src.kind = "attack") =>
       /\ Len(attack_combinations) = Len(SrcAdmitted)
       /\ \A i \in 1..Len(SrcAdmitted) :
            /\ AbsentIfMalformed(attack_combinations[i].zone, SrcAdmitted[i], 2)
            /\ AbsentIfMalformed(attack_combinations[i].color_code, SrcAdmitted[i], 7)
            /\ AbsentIfMalformed(attack_combinations[i].position_code, SrcAdmitted[i], 8)
  /\ (Returned("extract_setter_calls") /\ src.kind = "setter") =>
       /\ Len(setter_calls) = Len(SrcAdmitted)
       /\ \A i \in 1..Len(SrcAdmitted) :
            /\ AbsentIfMalformed(setter_calls[i].color_code, SrcAdmitted[i], 5)
            /\ AbsentIfMalformed(setter_calls[i].position_1, SrcAdmitted[i], 6)
            /\ AbsentIfMalformed(setter_calls[i].position_2, SrcAdmitted[i], 7)
            /\ AbsentIfMalformed(setter_calls[i].position_3, SrcAdmitted[i], 8)
  /\ (Returned("extract_players") /\ src.kind = "home") =>
       Len(players.home) = Len(SrcAdmitted)
  /\ (Returned("extract_players") /\ src.kind = "visiting") =>
       Len(players.visiting) = Len(SrcAdmitted)

\* C20: every line with at least the kind's minimum number of fields yields
\* a record, whatever its tokens hold; a malformed token in a numeric
\* position (letters, a digit-like character outside 0-9) leaves that one
\* attribute absent, drops no record and raises nothing.
C20_OnlyStructuralRejection == NumbersDegrade

\* the same on the sections whose tokens hold no digit-like character
\* outside 0-9: letters in a numeric position leave the attribute absent
C20_LettersDegrade ==
  (\A i \in 1..Len(src.lines) : \A j \in 1..Len(src.lines[i]) :
      ~Contains(src.lines[i][j], "sup2"))
  => NumbersDegrade

(***************************************************************************)
(* SpecDoc: documents made of sections of distinct kinds in any order,     *)
(* decoded by the five extract functions in the order load_dvw calls them  *)
(***************************************************************************)
\* the number of sections of a document
MaxSections == 3

SetLine2520 == <<P1, E, E, E, PairText(25, 20), E>>
SetLine2025 == <<P1, E, E, E, PairText(20, 25), E>>

DocKinds == SectionKinds \cup {"set"}

BodiesOf(kind) ==
  CASE kind = "teams" ->
         { <<TeamLineA, TeamLineB>>, <<TeamLineA, TeamLineA>>,
           <<TeamLineNoName, TeamLineB>>, <<TeamLineShort, TeamLineA>> }
    [] kind \in {"home", "visiting"} ->
         { <<PlayerLine7, PlayerLineNoId>>, <<PlayerLineShort, PlayerLine7>> }
    [] kind = "attack" -> { <<AttackLineX1, AttackLineShort, AttackLineV5>> }
    [] kind = "setter" -> { <<SetterLineK1, SetterLineK2>> }
    [] kind = "set" -> { <<SetLine2520, SetLine2025>> }

SectionChoices ==
  UNION { {[kind |-> k, lines |-> b] : b \in BodiesOf(k)} : k \in DocKinds }

DocSources ==
  { ss \in UNION {[1..n -> SectionChoices] : n \in 0..MaxSections} :
      \A i, j \in 1..Len(ss) : ss[i].kind = ss[j].kind => i = j }

\* the document of a list of sections: their texts one after the other
RECURSIVE SectionsDoc(_)
SectionsDoc(ss) ==
  IF ss = <<>> THEN <<>>
  ELSE SectionText(Head(ss).kind, Head(ss).lines) \o SectionsDoc(Tail(ss))

InitDoc ==
  /\ src \in DocSources
  /\ doc = SectionsDoc(src)
  /\ pc = <<"extract_teams", "extract_set_scores", "extract_players",
            "extract_attack_combinations", "extract_setter_calls">>
  /\ match_id = Unset /\ teams = Unset /\ set_scores = Unset
  /\ players = Unset /\ attack_combinations = Unset
  /\ setter_calls = Unset /\ match_result = Unset
  /\ calls_with_codes = Unset /\ starting_lineup = Unset

NextDoc ==
  \/ ExtractTeams
  \/ ExtractSetScores
  \/ ExtractPlayers
  \/ ExtractAttackCombinations
  \/ ExtractSetterCalls

SpecDoc == InitDoc /\ [][NextDoc]_vars

\* the kinds of the sections of the document
SrcKinds == {src[i].kind : i \in 1..Len(src)}
SrcHas(kind) == kind \in SrcKinds
\* the lines of the section of the kind, none when the document has none
SrcLines(kind) ==
  IF SrcHas(kind) THEN (CHOOSE sec \in {src[i] : i \in 1..Len(src)} : sec.kind = kind).lines
  ELSE <<>>
\* the same document without its section of the kind
DocWithout(kind) == SectionsDoc(SelectSeq(src, LAMBDA sec : sec.kind # kind))

\* every call of the plan has returned
AllReturned == pc = <<>>

\* a document with no marker of the kind decodes to an empty container for it
EmptyWhenAbsent ==
  /\ (Returned("extract_teams") /\ ~SrcHas("teams")) => teams = EmptyDict
  /\ (Returned("extract_set_scores") /\ ~SrcHas("set")) => set_scores = EmptyDict
  /\ (Returned("extract_players") /\ ~SrcHas("home")) => players.home = <<>>
  /\ (Returned("extract_players") /\ ~SrcHas("visiting")) => players.visiting = <<>>
  /\ (Returned("extract_attack_combinations") /\ ~SrcHas("attack")) =>
        attack_combinations = <<>>
  /\ (Returned("extract_setter_calls") /\ ~SrcHas("setter")) => setter_calls = <<>>

\* the results of the kinds other than the players are those of the
\* document without the section S
OthersUnaffected(S) ==
  /\ (Returned("extract_teams") /\ S # "teams") =>
        teams = extract_teams(DocWithout(S))
  /\ (Returned("extract_set_scores") /\ S # "set") =>
        set_scores = extract_set_scores(DocWithout(S))
  /\ (Returned("extract_attack_combinations") /\ S # "attack") =>
        attack_combinations = extract_attack_combinations(DocWithout(S))
  /\ (Returned("extract_setter_calls") /\ S # "setter") =>
        setter_calls = extract_setter_calls(DocWithout(S))

\* the rosters are those of the document without the section S, for some
\* draw of the generated identifiers
RostersUnaffected(S) ==
  Returned("extract_players") =>
    /\ S # "home" =>
         \E t \in PlayerTokenSamples :
           players.home = extract_players(DocWithout(S), t, t).home
    /\ S # "visiting" =>
         \E t \in PlayerTokenSamples :
           players.visiting = extract_players(DocWithout(S), t, t).visiting

\* a roster with the team attribute of its records left out
NoTeam(records) ==
  [i \in 1..Len(records) |-> [k \in DOMAIN records[i] \ {"team"} |-> records[i][k]]]

\* the rosters are, but for the team attribute, those of the document
\* without the section S, and the team attribute is the name the teams
\* decoder gives the side, "Home" or "Visiting" when it gives none
RostersUnaffectedButTeam(S) ==
  Returned("extract_players") =>
    /\ S # "home" =>
         \E t \in PlayerTokenSamples :
           NoTeam(players.home) = NoTeam(extract_players(DocWithout(S), t, t).home)
    /\ S # "visiting" =>
         \E t \in PlayerTokenSamples :
           NoTeam(players.visiting) =
             NoTeam(extract_players(DocWithout(S), t, t).visiting)
    /\ \A i \in 1..Len(players.home) :
         players.home[i].team = DictGet(teams, "team_1", <<"Home">>)
    /\ \A i \in 1..Len(players.visiting) :
         players.visiting[i].team = DictGet(teams, "team_2", <<"Visiting">>)

\* C7 as stated, on the results of a document once every decoder has
\* returned: a document with no S marker decodes to an empty container
\* for S, and for every section S of a document the results of every other
\* section kind, the player records included, are those of the document
\* without S.
C7_SectionIndependence ==
  AllReturned =>
    /\ EmptyWhenAbsent
    /\ \A S \in SrcKinds : OthersUnaffected(S) /\ RostersUnaffected(S)

\* C7, amended, on the results of a document once every decoder has
\* returned: a document with no S marker decodes to an empty container
\* for S, and for every section S of a document the results of every other
\* section kind are those of the document without S, except the team
\* attribute of the player records,
\* which is the side's name from [3TEAMS] as extract_teams decodes it and
\* "Home" / "Visiting" without one.
C7_IndependenceButTeam ==
  AllReturned =>
    /\ EmptyWhenAbsent
    /\ \A S \in SrcKinds : OthersUnaffected(S) /\ RostersUnaffectedButTeam(S)

\* every call has returned on a document with [3TEAMS] naming side 1 before
\* a home roster with records, and with an attack section
C7_Witness ==
  /\ pc = <<>>
  /\ SrcHas("teams") /\ SrcHas("home") /\ SrcHas("attack")
  /\ "team_1" \in DOMAIN teams
  /\ Len(players.home) > 0
  /\ Len(attack_combinations) > 0

\* C10: every record of players.home is decoded from a line of the
\* [3PLAYERS-H] section and every record of players.visiting from a line of
\* the [3PLAYERS-V] section, each admitted line once, whatever the team
\* names (equal, absent, empty) and whichever section comes first.
C10_RosterPartition ==
  Returned("extract_players") =>
    /\ SameLines(players.home, AdmittedOf("home", SrcLines("home")), SamePlayerLine)
    /\ SameLines(players.visiting, AdmittedOf("visiting", SrcLines("visiting")),
                 SamePlayerLine)

\* the visiting section stands before the home section, their lines differ,
\* and both rosters have records
C10_Witness ==
  /\ Returned("extract_players")
  /\ \E i, j \in 1..Len(src) :
       /\ i < j
       /\ src[i].kind = "visiting" /\ src[j].kind = "home"
       /\ src[i].lines # src[j].lines
  /\ Len(players.home) > 0 /\ Len(players.visiting) > 0

(***************************************************************************)
(* SpecTwice: load_dvw's decoding of one document, made twice              *)
(***************************************************************************)
\* the number of sections after the match header
MaxTwiceSections == 2

\* the calls load_dvw makes on the text of the file
LoadDvwCalls ==
  <<"generate_match_id", "extract_teams", "extract_set_scores", "extract_players",
    "extract_attack_combinations", "extract_setter_calls", "get_match_result">>

\* a match header, and whether generate_match_id synthesizes the id for it:
\* no header, an 8th field, a digit run on the tag line, a blank 8th field
\* and no digit run, an 8th field behind an empty 2nd field
HeaderChoices ==
  { [text |-> <<>>, generated |-> TRUE],
    [text |-> TagMatch \o <<"\n">>
                \o Join(<<<<"d">>, <<"t">>, E, E, E, E, E, <<"A", "B", "C">>, <<"z">>>>, ";")
                \o <<"\n">>,
     generated |-> FALSE],
    [text |-> TagMatch \o <<" ">> \o Run6 \o <<"\n">>
                \o Join(<<<<"d">>, <<"t">>, E, E, E, E, E, E, <<"z">>>>, ";") \o <<"\n">>,
     generated |-> FALSE],
    [text |-> TagMatch \o <<"\n">>
                \o Join(<<<<"d">>, <<"t">>, E, E, E, E, E, <<" ">>, <<"z">>>>, ";")
                \o <<"\n">>,
     generated |-> TRUE],
    [text |-> TagMatch \o <<"\n">>
                \o Join(<<<<"d">>, E, E, E, E, E, E, <<"A", "B", "C">>, <<"z">>>>, ";")
                \o <<"\n">>,
     generated |-> TRUE] }

TwiceBodyOf(kind) ==
  CASE kind = "teams" -> <<TeamLineA, TeamLineB>>
    [] kind = "home" -> <<PlayerLine7, PlayerLineNoId>>
    [] kind = "visiting" -> <<PlayerLineNoId, PlayerLineShort, PlayerLineNoId>>
    [] kind = "attack" -> <<AttackLineX1, AttackLineSup2, AttackLineV5>>
    [] kind = "setter" -> <<SetterLineK1, SetterLineK2>>
    [] kind = "set" -> <<SetLine2520, SetLine2025>>

TwiceSections ==
  { ss \in UNION {[1..n -> {[kind |-> k, lines |-> TwiceBodyOf(k)] : k \in DocKinds}]
                    : n \in 0..MaxTwiceSections} :
      \A i, j \in 1..Len(ss) : ss[i].kind = ss[j].kind => i = j }

InitTwice ==
  /\ src \in {[header |-> h, sections |-> ss] : h \in HeaderChoices, ss \in TwiceSections}
  /\ doc = src.header.text \o SectionsDoc(src.sections)
  /\ pc = LoadDvwCalls \o LoadDvwCalls
  /\ match_id = Unset /\ teams = Unset /\ set_scores = Unset
  /\ players = Unset /\ attack_combinations = Unset
  /\ setter_calls = Unset /\ match_result = Unset
  /\ calls_with_codes = Unset /\ starting_lineup = Unset

NextTwice ==
  \/ GenerateMatchId
  \/ ExtractTeams
  \/ ExtractSetScores
  \/ ExtractPlayers
  \/ ExtractAttackCombinations
  \/ ExtractSetterCalls
  \/ GetMatchResult

SpecTwice == InitTwice /\ [][NextTwice]_vars

\* the first decoding is complete: the next call belongs to the second
SecondDecoding == Len(pc) <= Len(LoadDvwCalls)

\* the admitted lines of the roster section of the source
TwiceAdmitted(kind) ==
  LET secs == SelectSeq(src.sections, LAMBDA sec : sec.kind = kind)
  IN  IF secs = <<>> THEN <<>> ELSE AdmittedOf(kind, secs[1].lines)

\* two decodings of a roster are equal, but for the player_id of the
\* records whose line has no identifier field
SameRosterButIds(old, new, lines) ==
  /\ Len(old) = Len(lines)
  /\ Len(new) = Len(lines)
  /\ \A i \in 1..Len(lines) :
       /\ [old[i] EXCEPT !.player_id = None] = [new[i] EXCEPT !.player_id = None]
       /\ lines[i][9] # <<>> => old[i].player_id = new[i].player_id

\* what the second decoding leaves equal besides the match id
SameAggregate ==
  /\ teams' = teams
  /\ set_scores' = set_scores
  /\ match_result' = match_result
  /\ attack_combinations' = attack_combinations
  /\ setter_calls' = setter_calls
  /\ SameRosterButIds(players.home, players'.home, TwiceAdmitted("home"))
  /\ SameRosterButIds(players.visiting, players'.visiting, TwiceAdmitted("visiting"))

\* C12 as stated: every call of the second decoding of a document returns
\* what the first returned, in every field, the only exception being the
\* player_id of a player whose line has no identifier; also for documents
\* whose header carries no identifier.
C12_SecondDecodingEqual ==
  [][SecondDecoding => (match_id' = match_id /\ SameAggregate)]_vars

\* C12, amended: the second decoding returns what the first returned, with
\* two exceptions: the player_id of a player whose line has no identifier,
\* and the match id of a document for which generate_match_id reaches its
\* last step, the synthesized token.
C12_EqualButGenerated ==
  [][SecondDecoding =>
       /\ (match_id' = match_id \/ src.header.generated)
       /\ SameAggregate]_vars

\* both decodings are complete on a document with a header without
\* identifier and a roster line without identifier
C12_Witness ==
  /\ pc = <<>>
  /\ src.header.text # <<>> /\ src.header.generated
  /\ \E i \in 1..Len(TwiceAdmitted("home")) : TwiceAdmitted("home")[i][9] = <<>>
  /\ Len(players.home) = 2
  /\ Len(match_id) = 8

(***************************************************************************)
(* SpecAny: texts made of at most one tag and malformed or short lines,    *)
(* the empty text included, given to each of the seven functions           *)
(***************************************************************************)
\* the number of lines of a text
MaxAnyLines == 2

AnyTagChoices ==
  {<<>>, TagMatch, TagTeams, TagPlayersH, TagPlayersV, TagAttack, TagSetterCall,
   TagSet}

\* lines no decoder is at ease with: empty, blank, a lone separator, twelve
\* empty fields, digit-like characters that are no number in every numeric
\* position, scores that do not parse; and one line with a score
AnyLineChoices ==
  { <<>>,
    Join(<<P1, <<>>, <<>>, <<>>, <<"2", "-", "1">>, <<"x">>>>, ";"),
    <<" ", " ">>,
    <<";">>,
    <<";", ";", ";", ";", ";", ";", ";", ";", ";", ";", ";">>,
    Join(<<<<"x">>, <<"sup2">>, <<"-">>, <<"sup2">>, <<"sup2">>, <<"sup2">>,
           <<"sup2">>, <<"sup2">>, <<"sup2">>, <<"sup2">>>>, ";"),
    Join(<<<<"a">>, <<"1", "-", "2", "-", "3">>, <<"4", "-">>, <<"-">>,
           <<"x", "-", "1">>, <<"5">>>>, ";") }

AnySources ==
  { [tag |-> t, lines |-> ls] :
      t \in AnyTagChoices,
      ls \in UNION {[1..n -> AnyLineChoices] : n \in 0..MaxAnyLines} }

\* the text of a source: the tag, when there is one, on a line of its own,
\* then the lines, the last one without a newline
AnyDoc(s) ==
  (IF s.tag = <<>> THEN <<>> ELSE s.tag \o <<"\n">>) \o Join(s.lines, "\n")

InitAny ==
  /\ src \in AnySources
  /\ doc = AnyDoc(src)
  /\ pc = LoadDvwCalls
  /\ match_id = Unset /\ teams = Unset /\ set_scores = Unset
  /\ players = Unset /\ attack_combinations = Unset
  /\ setter_calls = Unset /\ match_result = Unset
  /\ calls_with_codes = Unset /\ starting_lineup = Unset

NextAny ==
  \/ GenerateMatchId
  \/ ExtractTeams
  \/ ExtractSetScores
  \/ ExtractPlayers
  \/ ExtractAttackCombinations
  \/ ExtractSetterCalls
  \/ GetMatchResult

SpecAny == InitAny /\ [][NextAny]_vars

\* each function that has returned has returned a value of its kind
ReturnsValues ==
  /\ Returned("generate_match_id") => Len(match_id) > 0
  /\ Returned("extract_teams") => DOMAIN teams \subseteq {"team_1", "team_2"}
  /\ Returned("extract_set_scores") =>
       \A k \in DOMAIN set_scores : set_scores[k] \in Int
  /\ Returned("get_match_result") =>
       /\ match_result # Raises("ValueError")
       /\ match_result # EmptyDict =>
            match_result.match_winner \in {"team_1", "team_2", "tie"}
  /\ Returned("extract_players") =>
       /\ DOMAIN players = {"home", "visiting"}
       /\ \A i \in 1..Len(players.home) : players.home[i] # Rejected
       /\ \A i \in 1..Len(players.visiting) : players.visiting[i] # Rejected
  /\ Returned("extract_attack_combinations") =>
       \A i \in 1..Len(attack_combinations) : attack_combinations[i] # Rejected
  /\ Returned("extract_setter_calls") =>
       \A i \in 1..Len(setter_calls) : setter_calls[i] # Rejected

\* on the empty text every container is empty
EmptyOnEmptyText ==
  doc = <<>> =>
    /\ Returned("extract_teams") => teams = EmptyDict
    /\ Returned("extract_set_scores") => set_scores = EmptyDict
    /\ Returned("extract_players") => players = [home |-> <<>>, visiting |-> <<>>]
    /\ Returned("extract_attack_combinations") => attack_combinations = <<>>
    /\ Returned("extract_setter_calls") => setter_calls = <<>>

\* C13: for every input text, the empty string and text made of malformed
\* or short lines included, each of the seven functions returns a value and
\* raises nothing; on the empty string teams and set scores are empty
\* mappings, both rosters and both lists are empty.
C13_NoFatalPath == ReturnsValues /\ EmptyOnEmptyText

\* the seven functions have returned on the empty text
C13_WitnessEmpty == pc = <<>> /\ doc = <<>> /\ Len(match_id) = 8

\* the seven functions have returned on a [3SET] section of two lines
\* whose scores do not parse
C13_Witness ==
  /\ pc = <<>>
  /\ src.tag = TagSet
  /\ Len(src.lines) = 2
  /\ \A i \in 1..2 : Len(src.lines[i]) > 11
  /\ set_scores = EmptyDict

(***************************************************************************)
(* SpecRound: one line built from field values, in its section, decoded    *)
(***************************************************************************)
\* the number of values of a line that differ from its base line
MaxVaried == 2

\* values free of ';' and newlines: text, numbers, the backrow flag
TextValues ==
  { <<"N">>, <<"a", " ", "b">>, <<" ", "N">>, <<"N", " ">>, <<>>, <<"[", "3", "x">> }
NumValues == { <<"4">>, <<"0", "7">>, <<>>, <<"x">>, <<"sup2">> }
FlagValues == { <<"1">>, <<"0">>, <<>>, <<"1", " ">> }

RoundKinds == {"teams", "home", "attack", "setter"}

\* the positions of the fields that have a designated attribute, with the
\* type of their values
Designated(kind) ==
  CASE kind = "teams" -> (2 :> "text")
    [] kind = "home" ->
         (2 :> "text") @@ (9 :> "text") @@ (10 :> "text") @@ (11 :> "text")
           @@ (13 :> "text")
    [] kind = "attack" ->
         (1 :> "text") @@ (2 :> "num") @@ (3 :> "text") @@ (4 :> "text")
           @@ (5 :> "text") @@ (7 :> "num") @@ (8 :> "num") @@ (9 :> "text")
           @@ (10 :> "flag")
    [] kind = "setter" ->
         (1 :> "text") @@ (3 :> "text") @@ (5 :> "num") @@ (6 :> "num")
           @@ (7 :> "num") @@ (8 :> "num") @@ (9 :> "text")

ValuesOf(type) ==
  CASE type = "text" -> TextValues
    [] type = "num" -> NumValues
    [] type = "flag" -> FlagValues

\* base lines: one with the minimum number of fields, one with more
BaseLines(kind) ==
  CASE kind = "teams" -> {TeamLineB, TeamLineA}
    [] kind = "home" ->
         {PlayerLine7,
          <<<<"0">>, <<"8">>, E, E, E, E, E, E, <<"I", "8">>, <<"L", "c">>>>}
    [] kind = "attack" ->
         {<<<<"X", "1">>, <<"4">>, <<"R">>, <<"H">>, <<"d">>, E, <<"1", "2">>, <<"3">>,
            <<"F">>, <<"1">>>>,
          <<<<"V", "5">>, <<"3">>, <<"L">>, <<"Q">>, <<"e">>>>}
    [] kind = "setter" ->
         {<<<<"K", "1">>, E, <<"Q">>, E, <<"3">>, <<"1">>, <<"2">>, <<"5">>,
            <<"a", ",", "b">>, <<"7">>>>,
          <<<<"K", "2">>, E, <<"Q">>>>}

\* the lines that differ from a line of ls in at most k designated values
RECURSIVE Varied(_, _, _)
Varied(kind, ls, k) ==
  IF k = 0 THEN ls
  ELSE LET less == Varied(kind, ls, k - 1)
       IN  less \cup
           UNION { UNION { {[l EXCEPT ![i] = v] : v \in ValuesOf(Designated(kind)[i])}
                           : i \in DOMAIN Designated(kind) \cap (1..Len(l)) }
                   : l \in less }

RoundSources ==
  UNION { {[kind |-> k, fields |-> l] : l \in Varied(k, BaseLines(k), MaxVaried)}
          : k \in RoundKinds }

InitRound ==
  /\ src \in RoundSources
  /\ doc = SectionText(src.kind, <<src.fields>>)
  /\ pc = <<"extract_teams", "extract_players", "extract_attack_combinations",
            "extract_setter_calls">>
  /\ match_id = Unset /\ teams = Unset /\ set_scores = Unset
  /\ players = Unset /\ attack_combinations = Unset
  /\ setter_calls = Unset /\ match_result = Unset
  /\ calls_with_codes = Unset /\ starting_lineup = Unset

NextRound ==
  \/ ExtractTeams
  \/ ExtractPlayers
  \/ ExtractAttackCombinations
  \/ ExtractSetterCalls

SpecRound == InitRound /\ [][NextRound]_vars

\* the value of the field at position i of the source line, empty when the
\* line is shorter
SrcValue(i) == IF i <= Len(src.fields) THEN src.fields[i] ELSE <<>>

\* the attribute holds the text value; an empty value is an absent attribute
HoldsText(attr, value) == attr = (IF value = <<>> THEN None ELSE value)
\* the attribute holds the number the value writes
HoldsNum(attr, value) ==
  \/ value = <<>> /\ attr = NoneInt
  \/ /\ value # <<>>
     /\ \A k \in 1..Len(value) : value[k] \in AsciiDigits
     /\ attr = SomeInt(DecValue(value))

\* the attributes of a decoded attack combination hold the values of the line
AttackHolds(r) ==
  /\ HoldsText(r.code, SrcValue(1))
  /\ HoldsNum(r.zone, SrcValue(2))
  /\ HoldsText(r.position, SrcValue(3))
  /\ HoldsText(r.type, SrcValue(4))
  /\ HoldsText(r.description, SrcValue(5))
  /\ HoldsNum(r.color_code, SrcValue(7))
  /\ HoldsNum(r.position_code, SrcValue(8))
  /\ HoldsText(r.set_direction, SrcValue(9))
  /\ r.backrow = (SrcValue(10) = <<"1">>)

SetterHolds(r) ==
  /\ HoldsText(r.code, SrcValue(1))
  /\ HoldsText(r.description, SrcValue(3))
  /\ HoldsNum(r.color_code, SrcValue(5))
  /\ HoldsNum(r.position_1, SrcValue(6))
  /\ HoldsNum(r.position_2, SrcValue(7))
  /\ HoldsNum(r.position_3, SrcValue(8))
  /\ HoldsText(r.additional_codes, SrcValue(9))

PlayerNamesHold(r) ==
  /\ HoldsText(r.last_name, SrcValue(10))
  /\ HoldsText(r.first_name, SrcValue(11))
  /\ HoldsText(r.role, SrcValue(13))

PlayerHolds(r) ==
  /\ HoldsText(r.player_number, SrcValue(2))
  /\ HoldsText(r.player_id, SrcValue(9))
  /\ PlayerNamesHold(r)

\* the same, an empty shirt number being "0" and an empty identifier a
\* generated token
PlayerHoldsOrFilled(r) ==
  /\ r.player_number = (IF SrcValue(2) = <<>> THEN <<"0">> ELSE SrcValue(2))
  /\ IF SrcValue(9) = <<>> THEN Len(r.player_id) = 6 ELSE r.player_id = SrcValue(9)
  /\ PlayerNamesHold(r)

\* the line of the source decodes to one record that holds its values
RoundTrip(playerHolds(_)) ==
  /\ (Returned("extract_teams") /\ src.kind = "teams") =>
       /\ "team_1" \in DOMAIN teams
       /\ HoldsText(teams["team_1"], SrcValue(2))
  /\ (Returned("extract_players") /\ src.kind = "home") =>
       /\ Len(players.home) = 1
       /\ playerHolds(players.home[1])
  /\ (Returned("extract_attack_combinations") /\ src.kind = "attack") =>
       /\ Len(attack_combinations) = 1
       /\ AttackHolds(attack_combinations[1])
  /\ (Returned("extract_setter_calls") /\ src.kind = "setter") =>
       /\ Len(setter_calls) = 1
       /\ SetterHolds(setter_calls[1])

\* C14 as stated: a line built by joining field values free of ';' and
\* newlines, with at least the kind's minimum number of fields, decodes to a
\* record holding exactly those values at their designated attributes.
C14_RoundTrip == RoundTrip(PlayerHolds)

\* the values of the line are kept by the trimming of the line and by the
\* section search, and its numeric values are numbers: the first value does
\* not begin and the last does not end with whitespace, no value holds the
\* tag prefix "[3", every numeric value is empty or a run of digits 0-9
SrcKeptValues ==
  LET n == Len(src.fields)
  IN  /\ src.fields[1] = <<>> \/ src.fields[1][1] \notin Whitespace
      /\ src.fields[n] = <<>> \/ src.fields[n][Len(src.fields[n])] \notin Whitespace
      /\ \A i \in 1..n : Occurrences(src.fields[i], AnyTag) = {}
      /\ \A i \in DOMAIN Designated(src.kind) \cap (1..n) :
           Designated(src.kind)[i] = "num" =>
             \A k \in 1..Len(src.fields[i]) : src.fields[i][k] \in AsciiDigits

\* C14, amended: when the first value does not begin and the last does not
\* end with whitespace, no value holds "[3", and the numeric values are
\* empty or runs of the digits 0-9, the line decodes to one record that
\* holds those values at their designated attributes: a text attribute is
\* the value, absent when the value is empty (the shirt number "0", the
\* player id a generated token of 6 characters), a numeric attribute the
\* number, absent when the value is empty, backrow true iff the 10th value
\* is '1'.
C14_RoundTripKept == SrcKeptValues => RoundTrip(PlayerHoldsOrFilled)

\* an attack combination of ten fields, two of them not those of the base
\* line, decoded to a record with its zone and its backrow flag
C14_Witness ==
  /\ Returned("extract_attack_combinations")
  /\ src.kind = "attack"
  /\ Len(src.fields) = 10
  /\ SrcKeptValues
  /\ src.fields[2] = <<"0", "7">>
  /\ src.fields[5] = <<"a", " ", "b">>
  /\ Len(attack_combinations) = 1
  /\ attack_combinations[1].zone = SomeInt(7)
  /\ attack_combinations[1].backrow

(***************************************************************************)
(* SpecScore: a [3SET] section with one line under scrutiny, after some    *)
(* other lines, decoded by extract_set_scores                              *)
(***************************************************************************)
\* the number of lines before the line under scrutiny
MaxBefore == 4

T25 == <<"2", "5">>
\* a ';'-joined line of [3SET] with what the line is: "pair" (the 5th field
\* is the pair a-b), "badpair" (the 5th field holds '-' and is no pair),
\* "short" (fewer than 6 fields), "second" (no '-' in the 5th field, numeric
\* 6th field, a-b the first pair among the fields 2 to 4), "secondnone"
\* (the same, but none of those fields is a pair), "secondnonum" (the 6th
\* field is not numeric), "notplayed" (fields 2 to 5 blank, numeric 6th
\* field), "allblank", "nopair" (no '-' anywhere)
ScoreLine(fields, is, a, b) == [fields |-> fields, is |-> is, a |-> a, b |-> b]

ScoreLineChoices ==
  { ScoreLine(<<P1, E, E, E, PairText(25, 20), T25>>, "pair", 25, 20),
    ScoreLine(<<P1, E, E, E, <<" ", "7", " ", "-", " ", "9", " ">>, E>>, "pair", 7, 9),
    ScoreLine(<<P1, E, E, E, <<"x", "-", "2", "0">>, T25>>, "badpair", 0, 0),
    ScoreLine(<<P1, E, E, E, <<"2", "5", "-">>, T25>>, "badpair", 0, 0),
    ScoreLine(<<P1, E, E, E, <<"2", "5", "-", "2", "0", "-", "3">>, T25>>, "badpair", 0, 0),
    ScoreLine(<<P1, PairText(8, 5), E, E, <<"x", "-", "1">>, T25>>, "badpair", 0, 0),
    ScoreLine(<<P1, E, E, E, PairText(25, 20)>>, "short", 0, 0),
    ScoreLine(<<P1, PairText(8, 5), E, E, E, T25>>, "second", 8, 5),
    ScoreLine(<<P1, PairText(8, 5), PairText(9, 7), E, E, T25>>, "second", 8, 5),
    ScoreLine(<<P1, <<"x", "-", "5">>, PairText(9, 7), E, <<"s">>, T25>>, "second", 9, 7),
    ScoreLine(<<P1, E, <<"-">>, PairText(3, 11), E, T25>>, "second", 3, 11),
    ScoreLine(<<P1, <<"x", "-", "5">>, E, <<"4", "-">>, E, T25>>, "secondnone", 0, 0),
    ScoreLine(<<P1, PairText(8, 5), E, E, E, <<"x">>>>, "secondnonum", 0, 0),
    ScoreLine(<<P1, PairText(8, 5), E, E, E, E>>, "secondnonum", 0, 0),
    ScoreLine(<<P1, E, E, E, E, T25>>, "notplayed", 0, 0),
    ScoreLine(<<P1, <<" ">>, E, E, <<" ">>, <<"0">>>>, "notplayed", 0, 0),
    ScoreLine(<<P1, E, E, E, E, E>>, "allblank", 0, 0),
    ScoreLine(<<P1, E, E, E, T25, <<"2", "0">>>>, "nopair", 0, 0) }

\* the lines before: all of them score lines, or all of them short
FillerChoices ==
  { ScoreLine(<<P1, E, E, E, PairText(21, 25), E>>, "pair", 21, 25),
    ScoreLine(<<P1>>, "short", 0, 0) }

\* the line that may follow
AfterLine == ScoreLine(<<P1, E, E, E, PairText(15, 10), <<"1", "5">>>>, "pair", 15, 10)

ScoreSources ==
  { [before |-> n, filler |-> f, probe |-> p, gap |-> g, after |-> a] :
      n \in 0..MaxBefore, f \in FillerChoices, p \in ScoreLineChoices,
      g \in BOOLEAN, a \in BOOLEAN }

\* the document of a source: under [3SET] the lines before, the line under
\* scrutiny, then an empty line (gap) and one more score line (after)
ScoreDoc(s) ==
  TagSet \o <<"\n">>
    \o Join([i \in 1..(s.before + 1) |->
               IF i <= s.before THEN Join(s.filler.fields, ";")
               ELSE Join(s.probe.fields, ";")], "\n")
    \o <<"\n">>
    \o (IF s.gap THEN <<"\n">> ELSE <<>>)
    \o (IF s.after THEN Join(AfterLine.fields, ";") \o <<"\n">> ELSE <<>>)

InitScore ==
  /\ src \in ScoreSources
  /\ src.before = 0 => src.filler.is = "pair"
  /\ doc = ScoreDoc(src)
  /\ pc = <<"extract_set_scores", "get_match_result">>
  /\ match_id = Unset /\ teams = Unset /\ set_scores = Unset
  /\ players = Unset /\ attack_combinations = Unset
  /\ setter_calls = Unset /\ match_result = Unset
  /\ calls_with_codes = Unset /\ starting_lineup = Unset

NextScore == ExtractSetScores \/ GetMatchResult

SpecScore == InitScore /\ [][NextScore]_vars

\* the set index of the line under scrutiny
ProbeIndex == src.before + 1

\* the table has no entry, or the entry (a, b), for the set index n
NoEntry(n) ==
  Team1Key(n) \notin DOMAIN set_scores /\ Team2Key(n) \notin DOMAIN set_scores
EntryIs(n, a, b) ==
  /\ Team1Key(n) \in DOMAIN set_scores /\ Team2Key(n) \in DOMAIN set_scores
  /\ set_scores[Team1Key(n)] = a
  /\ set_scores[Team2Key(n)] = b

\* the set indices a document of SpecScore can give
ScoreIndices == 1..(src.before + 2)

\* C15: for every set index n the table holds team_1_set_n if and only if
\* it holds team_2_set_n, and a set line whose score is unparseable or
\* incomplete (a side non-numeric or missing, more than one '-', fewer than
\* 6 fields) contributes no entry at all.
C15_PairedEntries ==
  Returned("extract_set_scores") =>
    /\ \A k \in DOMAIN set_scores :
         \E n \in ScoreIndices : k \in {Team1Key(n), Team2Key(n)}
    /\ \A n \in ScoreIndices :
         Team1Key(n) \in DOMAIN set_scores <=> Team2Key(n) \in DOMAIN set_scores
    /\ src.probe.is \in {"badpair", "short"} => NoEntry(ProbeIndex)

\* a line with a missing side stands between two score lines: the table
\* holds the entries of its neighbours and none for it
C15_Witness ==
  /\ Returned("extract_set_scores")
  /\ src.probe.is = "badpair"
  /\ src.probe.fields[5] = <<"2", "5", "-">>
  /\ src.before = 1 /\ src.filler.is = "pair"
  /\ src.after /\ ~src.gap
  /\ EntryIs(1, 21, 25) /\ NoEntry(2) /\ EntryIs(3, 15, 10)

\* C16: when the 5th field of a set line holds no '-', its 6th field is
\* purely numeric and one of the fields 2 to 4 holds a '-'-separated pair,
\* the first of those fields, in order, that parses as two integers is
\* recorded as the set's scores, a field with '-' that does not parse being
\* passed over; when the 6th field is not numeric nothing is recorded.
C16_SecondEncoding ==
  Returned("extract_set_scores") =>
    /\ src.probe.is = "second" => EntryIs(ProbeIndex, src.probe.a, src.probe.b)
    /\ src.probe.is \in {"secondnone", "secondnonum"} => NoEntry(ProbeIndex)

\* the 2nd field holds '-' and is no pair, the 3rd is the pair 9-7: the
\* third set is 9-7
C16_Witness ==
  /\ Returned("extract_set_scores")
  /\ src.probe.is = "second"
  /\ src.probe.fields[2] = <<"x", "-", "5">>
  /\ src.before = 2
  /\ EntryIs(3, 9, 7)

\* C17: a set line whose fields 2 to 5 are all blank and whose 6th field is
\* numeric yields no entry for its set index, at every position of the line
\* in the section (set index below 4, set index 4 or more); an all-blank
\* line 'P1;;;;;' yields no entry either, and nothing is raised.
C17_NotPlayedSkipped ==
  Returned("extract_set_scores") =>
    /\ src.probe.is \in {"notplayed", "allblank"} => NoEntry(ProbeIndex)
    /\ \A n \in 1..src.before :
         IF src.filler.is = "pair" THEN EntryIs(n, src.filler.a, src.filler.b)
         ELSE NoEntry(n)
    /\ (src.after /\ ~src.gap) => EntryIs(ProbeIndex + 1, AfterLine.a, AfterLine.b)

\* a line of a set not yet played is the fifth line of the section
C17_Witness ==
  /\ Returned("get_match_result")
  /\ src.probe.is = "notplayed"
  /\ src.before = 4 /\ src.filler.is = "pair"
  /\ src.after /\ ~src.gap
  /\ NoEntry(5) /\ EntryIs(6, 15, 10)
  /\ match_result.total_sets_played = 5

\* the same as the second line of the section
C17_WitnessEarly ==
  /\ Returned("extract_set_scores")
  /\ src.probe.is = "notplayed"
  /\ src.before = 1
  /\ NoEntry(2)

\* C19: the body decoded by extract_set_scores ends at the first of the next
\* section tag, two consecutive newlines and the end of the document: a line
\* that follows a blank line after [3SET] contributes no set entry and does
\* not advance the set counter.
C19_SetSectionBounded ==
  (Returned("extract_set_scores") /\ src.gap /\ src.after) =>
    NoEntry(ProbeIndex + 1)

\* without the blank line the line that follows is the next set
C19_NextLineCounted ==
  (Returned("extract_set_scores") /\ ~src.gap /\ src.after) =>
    EntryIs(ProbeIndex + 1, AfterLine.a, AfterLine.b)

(***************************************************************************)
(* SpecBound: documents with one section of teams, players, attack         *)
(* combinations or setter calls whose lines are followed by terminators    *)
(* and by further lines of the same kind                                   *)
(***************************************************************************)
\* the number of lines between the marker and the first terminator
MaxBoundLines == 2

\* what may follow the lines: the end of the document, a blank line, the
\* tag the pattern of the kind names (another tag for the kinds whose
\* pattern names none), the tag of an unrelated section, the marker again
Terminators == {"end", "blank", "explicit", "generic", "marker"}

ExplicitTagOf(kind) ==
  CASE kind = "teams" -> TagPlayersH
    [] kind = "home" -> TagPlayersV
    [] kind = "visiting" -> TagAttack
    [] kind = "attack" -> TagSetterCall
    [] kind = "setter" -> TagMatch

TerminatorText(kind, t) ==
  CASE t = "blank" -> <<"\n">>
    [] t = "explicit" -> ExplicitTagOf(kind) \o <<"\n">>
    [] t = "generic" -> TagSet \o <<"\n">>
    [] t = "marker" -> TagOf(kind) \o <<"\n">>

\* lines of the kind without a digit-like character outside 0-9
BoundLineChoicesOf(kind) ==
  CASE kind = "teams" -> {TeamLineA, TeamLineB}
    [] kind \in {"home", "visiting"} -> {PlayerLine7, PlayerLineNoId, PlayerLineShort}
    [] kind = "attack" -> {AttackLineX1, AttackLineV5, AttackLineShort}
    [] kind = "setter" -> {SetterLineK1, SetterLineK2, SetterLineShort}

\* the lines, each one ended by a newline
RECURSIVE LinesText(_)
LinesText(lines) ==
  IF lines = <<>> THEN <<>>
  ELSE Join(Head(lines), ";") \o <<"\n">> \o LinesText(Tail(lines))

\* the terminators in turn, each followed by a line the kind admits; the
\* document ends at the terminator "end"
RECURSIVE AfterText(_, _)
AfterText(kind, terms) ==
  IF terms = <<>> \/ Head(terms) = "end" THEN <<>>
  ELSE TerminatorText(kind, Head(terms))
         \o LinesText(<<LongestLineOf(kind)>>)
         \o AfterText(kind, Tail(terms))

BoundSources ==
  { [kind |-> k, pre |-> p, first |-> ls, terms |-> ts] :
      k \in SectionKinds, p \in BOOLEAN,
      ts \in [1..2 -> Terminators],
      ls \in UNION {UNION {[1..n -> BoundLineChoicesOf(kk)] : n \in 0..MaxBoundLines}
                      : kk \in SectionKinds} }

\* the document of a source: when pre, a [3SET] section with a line of the
\* kind and a blank line; the marker on a line; the lines; the terminators
BoundDoc(s) ==
  (IF s.pre THEN TagSet \o <<"\n">> \o LinesText(<<LongestLineOf(s.kind)>>) \o <<"\n">>
   ELSE <<>>)
    \o TagOf(s.kind) \o <<"\n">> \o LinesText(s.first)
    \o AfterText(s.kind, s.terms)

InitBound ==
  /\ src \in BoundSources
  /\ \A i \in 1..Len(src.first) : src.first[i] \in BoundLineChoicesOf(src.kind)
  /\ doc = BoundDoc(src)
  /\ pc = <<"extract_teams", "extract_players", "extract_attack_combinations",
            "extract_setter_calls">>
  /\ match_id = Unset /\ teams = Unset /\ set_scores = Unset
  /\ players = Unset /\ attack_combinations = Unset
  /\ setter_calls = Unset /\ match_result = Unset
  /\ calls_with_codes = Unset /\ starting_lineup = Unset

NextBound ==
  \/ ExtractTeams
  \/ ExtractPlayers
  \/ ExtractAttackCombinations
  \/ ExtractSetterCalls

SpecBound == InitBound /\ [][NextBound]_vars

\* the lines before the first terminator that pass the admission gate
BoundAdmitted == AdmittedOf(src.kind, src.first)

\* C18: for the teams, home-player, visiting-player, attack-combination and
\* setter-call sections the records are those of the lines between the
\* first occurrence of the marker and the first terminator (a '[3' tag, the
\* tag named by the pattern included, a blank line, the end of the
\* document); lines after that terminator contribute no record, whichever
\* terminators follow and in whichever order.
C18_SectionBoundary ==
  /\ (Returned("extract_teams") /\ src.kind = "teams") =>
       /\ DOMAIN teams = {"team_1" : i \in 1..Len(src.first)}
                           \cup {"team_2" : i \in 2..Len(src.first)}
       /\ Len(src.first) >= 1 => teams["team_1"] = src.first[1][2]
       /\ Len(src.first) >= 2 => teams["team_2"] = src.first[2][2]
  /\ (Returned("extract_players") /\ src.kind = "home") =>
       SameLines(players.home, BoundAdmitted, SamePlayerLine)
  /\ (Returned("extract_players") /\ src.kind = "visiting") =>
       SameLines(players.visiting, BoundAdmitted, SamePlayerLine)
  /\ (Returned("extract_attack_combinations") /\ src.kind = "attack") =>
       SameLines(attack_combinations, BoundAdmitted, SameRawData)
  /\ (Returned("extract_setter_calls") /\ src.kind = "setter") =>
       SameLines(setter_calls, BoundAdmitted, SameRawData)

\* a home roster of one line, then a blank line, a player line, the tag
\* [3PLAYERS-V] and a player line: one home record, one visiting record
C18_Witness ==
  /\ Returned("extract_players")
  /\ src.kind = "home"
  /\ src.first = <<PlayerLine7>>
  /\ src.terms = <<"blank", "explicit">>
  /\ Len(players.home) = 1
  /\ Len(players.visiting) = 1

\* an attack section that ends at a tag before a blank line
C18_WitnessTagFirst ==
  /\ Returned("extract_attack_combinations")
  /\ src.kind = "attack"
  /\ src.pre
  /\ Len(src.first) = 2
  /\ src.terms = <<"generic", "blank">>
  /\ Len(attack_combinations) = Len(BoundAdmitted)
  /\ Len(BoundAdmitted) = 2

(***************************************************************************)
(* SpecCoerce: one attack-combination or setter-call line whose numeric    *)
(* positions hold tokens of every shape, cut at every length               *)
(***************************************************************************)
\* the number of numeric positions that do not hold the token of the base
MaxCoerced == 2

\* tokens: digit runs, empty, letters, signed, spaced, a digit-like
\* character that is no decimal digit
CoerceTokens ==
  { <<"4">>, <<"0", "7">>, <<>>, <<"x">>, <<"-", "4">>, <<"+", "4">>,
    <<" ", "4">>, <<"4", " ">>, <<"sup2">> }

CoerceKinds == {"attack", "setter"}

\* the positions at which the decoder of the kind reads a number
NumericPositions(kind) ==
  CASE kind = "attack" -> {2, 7, 8}
    [] kind = "setter" -> {5, 6, 7, 8, 10}

CoerceBase(kind) ==
  CASE kind = "attack" ->
         <<<<"X", "1">>, <<"4">>, <<"R">>, <<"H">>, <<"d">>, E, <<"4">>, <<"4">>,
           <<"F">>, <<"1">>>>
    [] kind = "setter" ->
         <<<<"K", "1">>, E, <<"Q">>, E, <<"4">>, <<"4">>, <<"4">>, <<"4">>,
           <<"a", ",", "b">>, <<"4">>>>

\* the lines that differ from a line of ls in at most k numeric positions
RECURSIVE Coerced(_, _, _)
Coerced(kind, ls, k) ==
  IF k = 0 THEN ls
  ELSE LET less == Coerced(kind, ls, k - 1)
       IN  less \cup
           UNION { UNION { {[l EXCEPT ![i] = v] : v \in CoerceTokens}
                           : i \in NumericPositions(kind) }
                   : l \in less }

\* every such line, whole or cut after n fields, n at least the minimum
CoerceSources ==
  UNION { { [kind |-> k, fields |-> SubSeq(l, 1, n)] :
              l \in Coerced(k, {CoerceBase(k)}, MaxCoerced),
              n \in MinFieldsOf(k)..Len(CoerceBase(k)) }
          : k \in CoerceKinds }

InitCoerce ==
  /\ src \in CoerceSources
  /\ doc = SectionText(src.kind, <<src.fields>>)
  /\ pc = <<"extract_attack_combinations", "extract_setter_calls">>
  /\ match_id = Unset /\ teams = Unset /\ set_scores = Unset
  /\ players = Unset /\ attack_combinations = Unset
  /\ setter_calls = Unset /\ match_result = Unset
  /\ calls_with_codes = Unset /\ starting_lineup = Unset

NextCoerce ==
  \/ ExtractAttackCombinations
  \/ ExtractSetterCalls

SpecCoerce == InitCoerce /\ [][NextCoerce]_vars

\* the token at position i of the line as the decoder splits it: the field
\* of the source, the last one without the whitespace that line.strip()
\* removes from the end of the line; Unset beyond the end of the line
CoerceToken(i) ==
  IF i > Len(src.fields) THEN Unset
  ELSE IF i = Len(src.fields)
       THEN LET f == src.fields[i]
            IN  IF f # <<>> /\ f[Len(f)] \in Whitespace
                THEN SubSeq(f, 1, Len(f) - 1) ELSE f
  ELSE src.fields[i]

\* the attribute is the integer the token writes when the token is a
\* non-empty run of the digits 0-9, and absent otherwise
CoercedFrom(attr, token) ==
  IF /\ token # Unset
     /\ token # <<>>
     /\ \A k \in 1..Len(token) : token[k] \in AsciiDigits
  THEN attr = SomeInt(DecValue(token))
  ELSE attr = NoneInt

\* C21: each numeric attribute of an attack-combination record (zone,
\* color_code, position_code) and of a setter-call record (color_code,
\* position_1, position_2, position_3) is the integer value of its token
\* when the token is non-empty and made only of decimal digits, and absent
\* otherwise: empty, signed, with surrounding spaces, non-digit text, or
\* beyond the end of the line.
C21_OptionalInt ==
  /\ (Returned("extract_attack_combinations") /\ src.kind = "attack") =>
       \A i \in 1..Len(attack_combinations) :
         LET r == attack_combinations[i]
         IN  /\ CoercedFrom(r.zone, CoerceToken(2))
             /\ CoercedFrom(r.color_code, CoerceToken(7))
             /\ CoercedFrom(r.position_code, CoerceToken(8))
  /\ (Returned("extract_setter_calls") /\ src.kind = "setter") =>
       \A i \in 1..Len(setter_calls) :
         LET r == setter_calls[i]
         IN  /\ CoercedFrom(r.color_code, CoerceToken(5))
             /\ CoercedFrom(r.position_1, CoerceToken(6))
             /\ CoercedFrom(r.position_2, CoerceToken(7))
             /\ CoercedFrom(r.position_3, CoerceToken(8))

\* a setter call with a digit run, a signed token and a token with a space
\* before it, cut before its fourth number
C21_Witness ==
  /\ Returned("extract_setter_calls")
  /\ src.kind = "setter"
  /\ src.fields = <<<<"K", "1">>, E, <<"Q">>, E, <<"0", "7">>, <<"-", "4">>, <<"4">>>>
  /\ Len(setter_calls) = 1
  /\ setter_calls[1].color_code = SomeInt(7)
  /\ setter_calls[1].position_1 = NoneInt
  /\ setter_calls[1].position_2 = SomeInt(4)
  /\ setter_calls[1].position_3 = NoneInt

\* an attack combination whose zone is a digit run with a space before it
C21_WitnessSpace ==
  /\ Returned("extract_attack_combinations")
  /\ src.kind = "attack"
  /\ Len(src.fields) = 10
  /\ src.fields[2] = <<" ", "4">>
  /\ src.fields[7] = <<"x">>
  /\ Len(attack_combinations) = 1
  /\ attack_combinations[1].zone = NoneInt
  /\ attack_combinations[1].color_code = NoneInt
  /\ attack_combinations[1].position_code = SomeInt(4)

(***************************************************************************)
(* SpecCodes: setter-call sections whose lines hold additional codes of    *)
(* every shape, decoded and then filtered                                  *)
(***************************************************************************)
\* the number of lines of the section
MaxCodeLines == 2

\* the text of a 9th field with the codes it lists
CodeField(text, list) == [text |-> text, list |-> list]

CodeFieldChoices ==
  { CodeField(<<>>, <<>>),
    CodeField(<<"a">>, << <<"a">> >>),
    CodeField(<<"a", ",", "b">>, << <<"a">>, <<"b">> >>),
    CodeField(<<" ", "a", " ", ",", " ", ",", "b", " ">>, << <<"a">>, <<"b">> >>),
    CodeField(<<",", "b", " ", "c", ",", ",">>, << <<"b", " ", "c">> >>),
    CodeField(<<"b", ",", "a", ",", "b">>, << <<"b">>, <<"a">>, <<"b">> >>),
    CodeField(<<",">>, <<>>),
    CodeField(<<" ", ",", " ">>, <<>>),
    CodeField(<<" ">>, <<>>) }

\* a line: cut after its 3rd field, or with a 9th field, and then with or
\* without a 10th field
CodeLineChoices ==
  { [cut |-> TRUE, field |-> CodeField(<<>>, <<>>), tail |-> FALSE] }
    \cup { [cut |-> FALSE, field |-> f, tail |-> t] :
             f \in CodeFieldChoices, t \in BOOLEAN }

\* the fields of the i-th line; its code is K followed by i
CodeLineFields(l, i) ==
  LET head == <<<<"K", DigitChar(i)>>, E, <<"Q">>>>
  IN  IF l.cut THEN head
      ELSE head \o <<E, <<"3">>, E, E, E, l.field.text>>
             \o (IF l.tail THEN <<<<"7">>>> ELSE <<>>)

CodeSources ==
  UNION { [1..n -> CodeLineChoices] : n \in 0..MaxCodeLines }

InitCodes ==
  /\ src \in CodeSources
  /\ doc = TagSetterCall \o <<"\n">>
             \o LinesText([i \in 1..Len(src) |-> CodeLineFields(src[i], i)])
  /\ pc = <<"extract_setter_calls", "get_calls_with_additional_codes">>
  /\ match_id = Unset /\ teams = Unset /\ set_scores = Unset
  /\ players = Unset /\ attack_combinations = Unset
  /\ setter_calls = Unset /\ match_result = Unset
  /\ calls_with_codes = Unset /\ starting_lineup = Unset

NextCodes ==
  \/ ExtractSetterCalls
  \/ GetCallsWithAdditionalCodes

SpecCodes == InitCodes /\ [][NextCodes]_vars

\* the indices of the lines that list a code, in order
WithCodes ==
  SelectSeq([i \in 1..Len(src) |-> i], LAMBDA i : src[i].field.list # <<>>)

\* C22: additional_codes_list is the 9th field split on commas, each piece
\* trimmed, the empty pieces dropped, in order, and the empty list when the
\* field is missing or empty; get_calls_with_additional_codes returns
\* exactly the calls whose list is non-empty, in their order, so a call
\* whose 9th field holds only commas or spaces is not among them.
C22_AdditionalCodes ==
  /\ Returned("extract_setter_calls") =>
       /\ Len(setter_calls) = Len(src)
       /\ \A i \in 1..Len(src) :
            /\ setter_calls[i].code = <<"K", DigitChar(i)>>
            /\ setter_calls[i].additional_codes_list = src[i].field.list
  /\ Returned("get_calls_with_additional_codes") =>
       /\ Len(calls_with_codes) = Len(WithCodes)
       /\ \A k \in 1..Len(WithCodes) :
            calls_with_codes[k] = setter_calls[WithCodes[k]]

\* a call whose 9th field holds a comma between spaces, then a call with
\* the codes a and b: the second call alone has additional codes
C22_Witness ==
  /\ Returned("get_calls_with_additional_codes")
  /\ Len(src) = 2
  /\ src[1].field.text = <<" ", ",", " ">>
  /\ src[1].tail
  /\ src[2].field.list = << <<"a">>, <<"b">> >>
  /\ Len(calls_with_codes) = 1
  /\ calls_with_codes[1].code = <<"K", "2">>
  /\ setter_calls[1].additional_codes_list = <<>>

(***************************************************************************)
(* SpecLineup: one roster of players with shirt numbers of every shape,    *)
(* decoded, and the starting lineup of a team taken from it                *)
(***************************************************************************)
\* the number of players with a varied shirt number
MaxExtra == 2

\* the text of a shirt-number field; valid when int() accepts it, v its value
ShirtNumber(text, valid, v) == [text |-> text, valid |-> valid, v |-> v]

ShirtNumberChoices ==
  { ShirtNumber(<<"4">>, TRUE, 4),
    ShirtNumber(<<"0", "2">>, TRUE, 2),
    ShirtNumber(<<" ", "6">>, TRUE, 6),
    ShirtNumber(<<"-", "5">>, TRUE, 0 - 5),
    ShirtNumber(<<"0">>, TRUE, 0),
    ShirtNumber(<<>>, FALSE, 0),
    ShirtNumber(<<"x">>, FALSE, 0),
    ShirtNumber(<<"sup2">>, FALSE, 0) }

\* rosters that are always there: none, five players, six players
BaseRosters ==
  { <<>>,
    << ShirtNumber(<<"9">>, TRUE, 9), ShirtNumber(<<"2">>, TRUE, 2),
       ShirtNumber(<<"1", "2">>, TRUE, 12), ShirtNumber(<<"5">>, TRUE, 5),
       ShirtNumber(<<"7">>, TRUE, 7) >>,
    << ShirtNumber(<<"9">>, TRUE, 9), ShirtNumber(<<"2">>, TRUE, 2),
       ShirtNumber(<<"1", "2">>, TRUE, 12), ShirtNumber(<<"5">>, TRUE, 5),
       ShirtNumber(<<"7">>, TRUE, 7), ShirtNumber(<<"3">>, TRUE, 3) >> }

\* what the caller passes as team
TeamKeys == {"home", "visiting", "away"}

\* the roster is that of the team the caller names, or the home roster
\* when the caller names another; the varied players come first
LineupSources ==
  { [side |-> s, team |-> t, numbers |-> x \o b] :
      s \in {"home", "visiting"}, t \in TeamKeys,
      b \in BaseRosters,
      x \in UNION {[1..n -> ShirtNumberChoices] : n \in 0..MaxExtra} }

\* the identifier of the i-th player of the roster
IdAt(i) == <<"I", DigitChar(i)>>

\* the line of the i-th player
LineupLine(number, i) ==
  <<<<"0">>, number.text, E, E, E, E, E, E, IdAt(i), <<"L", "a">>>>

InitLineup ==
  /\ src \in LineupSources
  /\ src.side = "visiting" => src.team = "visiting"
  /\ doc = (IF src.side = "home" THEN TagPlayersH ELSE TagPlayersV) \o <<"\n">>
             \o LinesText([i \in 1..Len(src.numbers) |->
                             LineupLine(src.numbers[i], i)])
  /\ pc = <<"extract_players", "get_starting_lineup">>
  /\ match_id = Unset /\ teams = Unset /\ set_scores = Unset
  /\ players = Unset /\ attack_combinations = Unset
  /\ setter_calls = Unset /\ match_result = Unset
  /\ calls_with_codes = Unset /\ starting_lineup = Unset

NextLineup ==
  \/ ExtractPlayers
  \/ GetStartingLineup

SpecLineup == InitLineup /\ [][NextLineup]_vars

\* the shirt numbers of the roster the caller names: those of the source
\* when the team is its side, none otherwise
NamedRoster == IF src.team = src.side THEN src.numbers ELSE <<>>

\* the positions in the roster of the players with a number above 0
Eligible == {i \in 1..Len(NamedRoster) : NamedRoster[i].valid /\ NamedRoster[i].v > 0}

\* the position in the roster of a player of the lineup
PositionOf(player) == CHOOSE i \in 1..Len(src.numbers) : player.player_id = IdAt(i)

\* the positions of the players of the lineup, in the order of the lineup
LineupPositions == [k \in 1..Len(starting_lineup) |-> PositionOf(starting_lineup[k])]

\* C23: the starting lineup holds at most 6 players of the named roster,
\* each with a shirt number that int() accepts and that is greater than 0,
\* in ascending order of number; they are the lowest-numbered such players;
\* a player without shirt number ('0') or with a non-numeric one is not
\* among them; a team key that is no roster gives the empty list.
C23_StartingLineup ==
  Returned("get_starting_lineup") =>
    LET n == Len(starting_lineup)
        at == LineupPositions
    IN  /\ n = (IF Cardinality(Eligible) < 6 THEN Cardinality(Eligible) ELSE 6)
        /\ \A k \in 1..n :
             /\ at[k] \in Eligible
             /\ starting_lineup[k] = players[src.side][at[k]]
        /\ \A j, k \in 1..n : j < k =>
             /\ at[j] # at[k]
             /\ NamedRoster[at[j]].v <= NamedRoster[at[k]].v
        /\ \A i \in Eligible :
             (\A k \in 1..n : at[k] # i) =>
               \A k \in 1..n : NamedRoster[at[k]].v <= NamedRoster[i].v
        /\ src.team \notin {"home", "visiting"} => starting_lineup = <<>>

\* eight players, one without shirt number in front, one numbered 4
\* behind six others: the lineup is 2, 3, 4, 5, 7, 9
C23_Witness ==
  /\ Returned("get_starting_lineup")
  /\ src.team = "home" /\ src.side = "home"
  /\ Len(src.numbers) = 8
  /\ src.numbers[1].text = <<>>
  /\ src.numbers[2].text = <<"4">>
  /\ Len(starting_lineup) = 6
  /\ [k \in 1..6 |-> starting_lineup[k].player_number]
       = << <<"2">>, <<"3">>, <<"4">>, <<"5">>, <<"7">>, <<"9">> >>

\* a team key that is no roster
C23_WitnessUnknown ==
  /\ Returned("get_starting_lineup")
  /\ src.team = "away"
  /\ Len(src.numbers) > 0
  /\ starting_lineup = <<>>

====
